---- MODULE Spec2Model ----
(***************************************************************************)
(* Model of the avito-parser scan orchestrator (app/scanner.py), the HTTP  *)
(* control surface that drives it (app/main.py), the extractors it calls   *)
(* (app/parser.py) and the storage operations it uses (app/database.py).   *)
(*                                                                         *)
(* The program is a single asyncio event loop: the endpoints of main.py    *)
(* are coroutines without suspension points and run_full_scan is a         *)
(* background coroutine, so one step of the model is the code executed     *)
(* between two suspension points (an awaited fetch, an awaited storage     *)
(* call, an awaited sleep).  Awaited storage calls that are followed by no *)
(* access to scan_state before the next suspension are folded into the     *)
(* step that issues them.                                                  *)
(***************************************************************************)
EXTENDS Integers, Sequences, FiniteSets, TLC

\* ------------------------------------------------------------------ bounds
\* item identifiers the site can show
MaxItems == 3
\* building identifiers the site can show
MaxAddr == 2
\* buildings the houses table can hold beside those: rows of earlier runs whose
\* listings the site shows no more
MaxLeft == 1
\* search pages with items a category serves to one run
MaxPage == 1
\* number of POST /scan/start requests
MaxStarts == 2
\* the latest value of the database clock
MaxNow == 2

\* the circuit breaker threshold: config.py line 11 reads it from the
\* environment (default 5); the model runs the configuration with this value
MAX_CONSECUTIVE_ERRORS == 2

\* ------------------------------------------------------- program constants

SEARCH_CATEGORIES == <<"sale", "rent">>

ItemIds == 1..MaxItems
Addrs == 1..(MaxAddr + MaxLeft)
Tasks == 1..MaxStarts
\* the phase query parameter of POST /scan/start: None, "1", "2"
PhaseArgs == {"none", "1", "2"}
\* SQL NULL / Python None for the numeric columns of the model
NULL == 0

VARIABLES
    scan_state,     \* the global scan_state dict (without its lock)
    task,           \* per run_full_scan invocation: position and locals
    hist,           \* what the fetches and checks of the latest run did so far
    listings,       \* table avito.listings, keyed by item_id
    houses,         \* table avito.houses, keyed by address_id
    scan_progress,  \* table avito.scan_progress (append only)
    pool,           \* database._pool is set (the connection pool exists)
    clock,          \* datetime.now() at the start of a run
    db_now,         \* the value NOW() has in the database
    thr,            \* scan_state["lock"] and the threads inside its critical sections
    extr            \* an extractor call on its own: its input and what it returned

vars == <<scan_state, task, hist, listings, houses, scan_progress, pool,
          clock, db_now, thr, extr>>

\* ------------------------------------------------------------ parser.py
\* The period markers looked for in a price postfix ("/мес", "/сут").
PER_MONTH == "/mes"
PER_DAY == "/sut"
\* A postfix text is the sequence of its pieces: a marker or other text;
\* <<>> is the empty string (and None, which is falsy as well).
MaxPostfix == 2
PostfixPieces == {PER_MONTH, PER_DAY, "text"}
Postfixes == UNION {[1..n -> PostfixPieces] : n \in 0..MaxPostfix}

\* marker in price_text
Contains(marker, price_text) == \E n \in DOMAIN price_text : price_text[n] = marker

\* listing_type from the price postfix text
ListingTypeOf(price_text) ==
    IF price_text = <<>> THEN "sale"
    ELSE IF Contains(PER_MONTH, price_text) THEN "rent_long"
    ELSE IF Contains(PER_DAY, price_text) THEN "rent_short"
    ELSE "sale"

\* A raw search item: id (NULL = no "id" key, -1 = an id int() cannot read),
\* detailed (the price is a {value, postfix} dict, else a bare number),
\* price, postfix, urlPath (present or not).
\* Result: "none" (no id), "raise" (an exception), or the parsed record.
parse_search_item(item) ==
    IF item.id = NULL THEN [kind |-> "none"]
    ELSE IF item.id < 0 THEN [kind |-> "raise"]
    ELSE [kind |-> "item",
          item_id |-> item.id,
          price |-> item.price,
          listing_type |-> IF item.detailed THEN ListingTypeOf(item.postfix)
                           ELSE "sale",
          url |-> item.urlPath]

\* a loop over the items that an exception of one item ends
RECURSIVE ParseItems_aborted(_)
ParseItems_aborted(raw_items) ==
    IF raw_items = <<>> THEN <<>>
    ELSE LET parsed == parse_search_item(Head(raw_items))
         IN IF parsed.kind = "raise" THEN <<>>
            ELSE IF parsed.kind = "item"
            THEN <<[item_id |-> parsed.item_id, price |-> parsed.price,
                    listing_type |-> parsed.listing_type, url |-> parsed.url]>>
                 \o ParseItems_aborted(Tail(raw_items))
            ELSE ParseItems_aborted(Tail(raw_items))

RECURSIVE ParseItems(_)
ParseItems(raw_items) ==
    IF raw_items = <<>> THEN <<>>
    ELSE LET parsed == parse_search_item(Head(raw_items))
             rest == ParseItems(Tail(raw_items))
         IN IF parsed.kind = "item"
            THEN <<[item_id |-> parsed.item_id, price |-> parsed.price,
                    listing_type |-> parsed.listing_type, url |-> parsed.url]>>
                 \o rest
            ELSE rest

\* A search page: hydration (the embedded JSON is there and decodes),
\* searchResult (loader.searchResult.items), items (loader.items).
parse_search_page(html) ==
    IF ~html.hydration THEN <<>>
    ELSE LET raw_items == IF html.searchResult # <<>> THEN html.searchResult
                          ELSE html.items
         IN ParseItems(raw_items)

\* A listing page: hydration, item (loader.buyerItem.item is there),
\* house_id (the trailing segment of houseCatalogPageUrl, NULL when the URL
\* is absent or malformed), address and coords (NULL or set).
\* Result: NoData (None) or the detail record.
NoData == [kind |-> "none"]

parse_listing_page(html) ==
    IF ~html.hydration \/ ~html.item THEN NoData
    ELSE [kind |-> "data",
          address_id |-> html.house_id,
          slug |-> IF html.house_id = NULL THEN NULL ELSE 1,
          address |-> html.address,
          lat |-> html.coords,
          lng |-> html.coords]

\* The columns of avito.houses the model keeps (NULL or set).
HOUSE_FIELDS == {"slug", "address", "lat", "lng", "build_year", "house_type",
                 "rating", "raw_data"}
\* Characteristic columns a catalog page can fill (HOUSE_FIELD_MAP).
HOUSE_FIELD_MAP == {"build_year", "house_type"}

\* A house catalog page: hydration, fields (the characteristics found in it),
\* rating (NULL or set).  Result: NoData (None) or the set of keys of the
\* result dict.
parse_house_page(html) ==
    IF ~html.hydration THEN NoData
    ELSE LET result == html.fields \cup (IF html.rating # NULL THEN {"rating"} ELSE {})
         IN IF result = {} THEN NoData ELSE [kind |-> "data", keys |-> result]

\* ---------------------------------------------------------- database.py
AbsentListing == [present |-> FALSE, address_id |-> NULL, price |-> NULL,
                  listing_type |-> "", url |-> FALSE,
                  first_seen_at |-> NULL, last_seen_at |-> NULL]
AbsentHouse == [present |-> FALSE, f |-> [x \in HOUSE_FIELDS |-> NULL]]

\* an upsert whose conflict branch also sets first_seen_at
upsert_listing_first_seen(tbl, listing, now) ==
    IF tbl[listing.item_id].present
    THEN [tbl EXCEPT ![listing.item_id].price = listing.price,
                     ![listing.item_id].first_seen_at = now,
                     ![listing.item_id].last_seen_at = now]
    ELSE [tbl EXCEPT ![listing.item_id] =
              [present |-> TRUE, address_id |-> NULL, price |-> listing.price,
               listing_type |-> listing.listing_type, url |-> listing.url,
               first_seen_at |-> now, last_seen_at |-> now]]

\* an upsert whose conflict branch rewrites the whole row
upsert_listing_overwrites(tbl, listing, now) ==
    [tbl EXCEPT ![listing.item_id] =
        [present |-> TRUE, address_id |-> NULL, price |-> listing.price,
         listing_type |-> listing.listing_type, url |-> listing.url,
         first_seen_at |-> now, last_seen_at |-> now]]

\* INSERT ... ON CONFLICT (item_id) DO UPDATE SET price, last_seen_at; now is
\* the value of NOW(); a search item carries no address_id
upsert_listing(tbl, listing, now) ==
    IF tbl[listing.item_id].present
    THEN [tbl EXCEPT ![listing.item_id].price = listing.price,
                     ![listing.item_id].last_seen_at = now]
    ELSE [tbl EXCEPT ![listing.item_id] =
              [present |-> TRUE, address_id |-> NULL, price |-> listing.price,
               listing_type |-> listing.listing_type, url |-> listing.url,
               first_seen_at |-> now, last_seen_at |-> now]]

\* INSERT ... ON CONFLICT (address_id) DO UPDATE SET f = EXCLUDED.f for every
\* f of HOUSE_FIELDS; house.get(f) is None for a key the dict lacks.
upsert_house(tbl, address_id, house) ==
    [tbl EXCEPT ![address_id] =
        [present |-> TRUE,
         f |-> [x \in HOUSE_FIELDS |->
                   IF x \in DOMAIN house THEN house[x] ELSE NULL]]]

\* UPDATE listings SET address_id = aid WHERE item_id = item_id
set_address_id(tbl, item_id, aid) ==
    IF tbl[item_id].present
    THEN [tbl EXCEPT ![item_id].address_id = aid]
    ELSE tbl

RECURSIVE SortedSeq(_)
SortedSeq(S) ==
    IF S = {} THEN <<>>
    ELSE LET m == CHOOSE x \in S : \A y \in S : x <= y
         IN <<m>> \o SortedSeq(S \ {m})

\* the selection without its address_id IS NULL condition
ListingsWithoutAddress_all(tbl) ==
    SortedSeq({i \in ItemIds : tbl[i].present /\ tbl[i].url})

\* SELECT item_id FROM listings WHERE address_id IS NULL AND url IS NOT NULL
\* ORDER BY item_id
ListingsWithoutAddress(tbl) ==
    SortedSeq({i \in ItemIds : tbl[i].present /\ tbl[i].address_id = NULL
                                /\ tbl[i].url})

\* SELECT address_id FROM houses WHERE build_year IS NULL AND house_type IS
\* NULL AND slug IS NOT NULL ORDER BY address_id
HousesWithoutDetails(tbl) ==
    SortedSeq({a \in Addrs : tbl[a].present /\ tbl[a].f["build_year"] = NULL
                              /\ tbl[a].f["house_type"] = NULL
                              /\ tbl[a].f["slug"] # NULL})

\* ------------------------------------------------------------ scanner.py
\* A message of scan_state: its text and the numbers formatted into it.
Msg(text, a, b) == [text |-> text, a |-> a, b |-> b]

InitialScanState ==
    [status |-> "idle", phase |-> "none", category |-> "none",
     total_pages |-> 0, done_pages |-> 0, total_houses |-> 0,
     done_houses |-> 0, new_houses |-> 0, listings_found |-> 0, errors |-> 0,
     started_at |-> NULL, message |-> Msg("none", 0, 0),
     stop_requested |-> FALSE]

\* the dict get_scan_status returns: every key but stop_requested and lock
get_scan_status(ss) ==
    [status |-> ss.status, phase |-> ss.phase, category |-> ss.category,
     total_pages |-> ss.total_pages, done_pages |-> ss.done_pages,
     total_houses |-> ss.total_houses, done_houses |-> ss.done_houses,
     new_houses |-> ss.new_houses, listings_found |-> ss.listings_found,
     errors |-> ss.errors, started_at |-> ss.started_at,
     message |-> ss.message]

\* the keys of the dict get_scan_status builds, in the order it reads them
StatusKeys ==
    <<"status", "phase", "category", "total_pages", "done_pages",
      "total_houses", "done_houses", "new_houses", "listings_found", "errors",
      "started_at", "message">>

\* scan_state["lock"] is free, and the two threads are outside it: the
\* reader (get_scan_status) with the keys read so far (n), the dict being
\* built (snap) and scan_state as it was when the lock was taken (at); the
\* writer with the assignments it has still to make (pending)
NoThreads ==
    [lock |-> "free",
     r |-> [pc |-> "idle", n |-> 0, snap |-> get_scan_status(InitialScanState),
            at |-> InitialScanState],
     w |-> [pc |-> "idle", pending |-> <<>>]]

\* the locals of one run_full_scan invocation; pc is its position:
\*   unused     not requested yet
\*   scheduled  added by background_tasks.add_task, not entered yet
\*   entered    past the guard, entering the client context
\*   p1_fetch   awaiting fetch_search_page
\*   p1_sleep   awaiting the sleep of the pagination loop
\*   addr_query awaiting the SELECT of _collect_address_ids
\*   addr_fetch awaiting fetch_listing_page
\*   addr_sleep awaiting the sleep of the resolution loop
\*   p2_query   awaiting the SELECT of _run_phase2
\*   p2_fetch   awaiting fetch_house_page
\*   p2_sleep   awaiting the sleep of the enrichment loop
\*   closing    leaving the client context before the final status
\*   exc        an exception is propagating to the except clause
\*   rejected   returned at the guard (line 83)
\*   done       returned
NoLocals ==
    [pc |-> "unused", phase |-> "none", cat |-> 0, page |-> 0,
     consecutive_errors |-> 0, rows |-> <<>>, idx |-> 0]

\* what the latest run did: fetch (the last
\* fetch that completed: its kind, category, page or identifier, and
\* result), streak (the failed fetches since the last successful one in the
\* current category or queue), item_pages (the pages with items fetched in
\* the current category), tripped (the categories and queues abandoned
\* at the error threshold, each with the streak it was abandoned at),
\* stop_seen (a stop check returned true), raised (an exception escaped the
\* phases), extracted (the item identifiers parse_search_page returned for
\* the last page with items); and, kept from run to run, enriched (the
\* buildings for which an upsert of extracted characteristics succeeded)
NoFetch == [kind |-> "none", cat |-> 0, key |-> 0, res |-> "none"]
\* found: the raw search item last handed to the loop of _run_phase1 and the
\* category it was found under
NoFound ==
    [raw |-> [id |-> NULL, detailed |-> FALSE, price |-> NULL, postfix |-> <<>>,
              urlPath |-> FALSE],
     cat_name |-> "none", was_present |-> FALSE]
NoHist ==
    [fetch |-> NoFetch, streak |-> 0, item_pages |-> 0, tripped |-> {},
     stop_seen |-> FALSE, raised |-> FALSE, extracted |-> {}, enriched |-> {},
     found |-> NoFound]

is_stop_requested(ss) == ss.stop_requested

\* the frame of run_full_scan is left
Return(c) ==
    [c EXCEPT !.l = [NoLocals EXCEPT !.pc = "done"],
              !.h.streak = 0]

\* an exception leaves the phases: the client context is left first
Raise(c) ==
    [c EXCEPT !.l = [NoLocals EXCEPT !.pc = "exc", !.phase = c.l.phase],
              !.h.streak = 0, !.h.raised = TRUE]

SawStop(c) == [c EXCEPT !.h.stop_seen = TRUE]

\* run_full_scan, line 108
Stopped(c) ==
    Return([c EXCEPT !.ss.status = "stopped",
                     !.ss.message = Msg("Scan stopped by user", 0, 0)])

\* _run_phase2 up to its SELECT
BeginPhase2(c) ==
    [c EXCEPT !.ss.phase = "phase2_houses",
              !.ss.message = Msg("Phase 2: Fetching house details...", 0, 0),
              !.l.pc = "p2_query", !.l.cat = 0, !.l.page = 0,
              !.l.consecutive_errors = 0, !.l.rows = <<>>, !.l.idx = 0,
              !.h.streak = 0]

\* a run_full_scan that enters phase 2 whatever the phase argument is
AfterPhase1_any_phase(c) ==
    IF is_stop_requested(c.ss) THEN Stopped(SawStop(c))
    ELSE BeginPhase2(c)

\* run_full_scan after phase 1 (or without it): the stop check of line 107
\* and the start of phase 2
AfterPhase1(c) ==
    IF is_stop_requested(c.ss) THEN Stopped(SawStop(c))
    ELSE IF c.l.phase \in {"none", "2"} THEN BeginPhase2(c)
    ELSE [c EXCEPT !.l = [NoLocals EXCEPT !.pc = "closing", !.phase = c.l.phase],
                   !.h.streak = 0]

\* run_full_scan after phase 2: leave the client context
AfterPhase2(c) ==
    [c EXCEPT !.l = [NoLocals EXCEPT !.pc = "closing", !.phase = c.l.phase],
              !.h.streak = 0]

\* _run_phase1, lines 203-216: start of the address resolution
CollectStart(c) ==
    [c EXCEPT !.ss.message =
                  Msg("Phase 1: Collecting addressIds from listing pages...", 0, 0),
              !.l.pc = "addr_query", !.l.cat = 0, !.l.page = 0,
              !.l.consecutive_errors = 0,
              !.h.streak = 0, !.h.item_pages = 0]

\* the head of the pagination loop without the check of lines 144-145
PageLoop_unchecked(c) ==
    [c EXCEPT !.ss.message = Msg("Phase 1: page", c.l.cat, c.l.page),
              !.l.pc = "p1_fetch"]

\* _run_phase1, lines 143-149: head of the pagination loop
PageLoop(c) ==
    IF is_stop_requested(c.ss) THEN AfterPhase1(SawStop(c))
    ELSE [c EXCEPT !.ss.message = Msg("Phase 1: page", c.l.cat, c.l.page),
                   !.l.pc = "p1_fetch"]

\* _run_phase1, lines 135-141: head of the category loop, at category k
CategoryLoop(c, k) ==
    IF k > Len(SEARCH_CATEGORIES) THEN CollectStart(c)
    ELSE IF is_stop_requested(c.ss) THEN AfterPhase1(SawStop(c))
    ELSE PageLoop([c EXCEPT !.ss.category = SEARCH_CATEGORIES[k],
                            !.ss.message = Msg("Phase 1: Scanning", k, 0),
                            !.l.cat = k, !.l.page = 1,
                            !.l.consecutive_errors = 0,
                            !.h.streak = 0, !.h.item_pages = 0])

\* _run_phase1, line 130
BeginPhase1(c) ==
    CategoryLoop([c EXCEPT !.ss.phase = "phase1_search",
                           !.ss.message = Msg("Phase 1: Scanning search pages...", 0, 0)],
                 1)

\* _collect_address_ids, lines 231-241: head of the resolution loop
AddrLoop(c) ==
    IF c.l.idx >= Len(c.l.rows) THEN AfterPhase1(c)
    ELSE IF is_stop_requested(c.ss) THEN AfterPhase1(SawStop(c))
    ELSE [c EXCEPT !.ss.message =
                       IF c.l.idx % 50 = 0
                       THEN Msg("Phase 1: addressId", c.l.idx, Len(c.l.rows))
                       ELSE @,
                   !.l.pc = "addr_fetch"]

\* the head of the enrichment loop without the check of lines 307-308
HouseLoop_unchecked(c) ==
    IF c.l.idx >= Len(c.l.rows)
    THEN AfterPhase2([c EXCEPT !.ss.done_houses = Len(c.l.rows)])
    ELSE [c EXCEPT !.ss.done_houses = c.l.idx,
                   !.ss.message = Msg("Phase 2: House", c.l.idx + 1, Len(c.l.rows)),
                   !.l.pc = "p2_fetch"]

\* _run_phase2, lines 306-318 and 356: head of the enrichment loop
HouseLoop(c) ==
    IF c.l.idx >= Len(c.l.rows)
    THEN AfterPhase2([c EXCEPT !.ss.done_houses = Len(c.l.rows)])
    ELSE IF is_stop_requested(c.ss) THEN AfterPhase2(SawStop(c))
    ELSE [c EXCEPT !.ss.done_houses = c.l.idx,
                   !.ss.message = Msg("Phase 2: House", c.l.idx + 1, Len(c.l.rows)),
                   !.l.pc = "p2_fetch"]

\* a final status that does not read the stop flag again
Final_without_check(c) ==
    Return([c EXCEPT !.ss.status = "completed",
                     !.ss.message = Msg("completed", c.ss.new_houses,
                                        c.ss.listings_found)])

\* run_full_scan, lines 115-119
Final(c) ==
    LET final_status == IF is_stop_requested(c.ss) THEN "stopped" ELSE "completed"
        seen == IF is_stop_requested(c.ss) THEN SawStop(c) ELSE c
    IN Return([seen EXCEPT !.ss.status = final_status,
                           !.ss.message = Msg(final_status, c.ss.new_houses,
                                              c.ss.listings_found)])

\* an except clause that reports the run as completed
Failed_as_completed(c) ==
    Return([c EXCEPT !.ss.status = "completed", !.ss.message = Msg("Scan error", 0, 0)])

\* run_full_scan, lines 123-125
Failed(c) ==
    Return([c EXCEPT !.ss.status = "error", !.ss.message = Msg("Scan error", 0, 0)])

\* ------------------------------------------------------- the site's pages
RawItem(i, postfix) ==
    [id |-> i, detailed |-> TRUE, price |-> 1, postfix |-> postfix,
     urlPath |-> TRUE]

\* the site lists item i under one search category: odd identifiers are for
\* sale, even ones for rent
CategoryOf(i) == SEARCH_CATEGORIES[((i - 1) % 2) + 1]

\* the search pages the site serves for a category: one that does not
\* decode, one without items, and pages holding some of the category's items
\* in identifier order; a rental price comes with or without its period
SearchPages(cat_name) ==
    {[hydration |-> FALSE, searchResult |-> <<>>, items |-> <<>>],
     [hydration |-> TRUE, searchResult |-> <<>>, items |-> <<>>]}
    \cup {[hydration |-> TRUE, items |-> <<>>,
           searchResult |-> [n \in 1..Len(ids) |-> RawItem(ids[n], px)]] :
             ids \in {SortedSeq(S) :
                        S \in (SUBSET {i \in ItemIds : CategoryOf(i) = cat_name}) \ {{}}},
             px \in IF cat_name = "rent" THEN {<<>>, <<PER_MONTH>>} ELSE {<<>>}}

\* once a run got MaxPage pages with items from a category, the further
\* pages of that category hold none
SearchPagesAfter(cat_name, item_pages) ==
    IF item_pages < MaxPage THEN SearchPages(cat_name)
    ELSE {h \in SearchPages(cat_name) : parse_search_page(h) = <<>>}

\* the building the site shows on the page of listing i
AddrOf(i) == ((i - 1) % MaxAddr) + 1

\* the pages the site serves for listing i: one that does not decode, one
\* without a house catalog URL, one with it
ListingPages(i) ==
    {[hydration |-> FALSE, item |-> FALSE, house_id |-> NULL,
      address |-> NULL, coords |-> NULL]}
    \cup {[hydration |-> TRUE, item |-> TRUE, house_id |-> a,
           address |-> 1, coords |-> 1] : a \in {NULL, AddrOf(i)}}

HousePages ==
    {[hydration |-> FALSE, fields |-> {}, rating |-> NULL],
     [hydration |-> TRUE, fields |-> {}, rating |-> NULL],
     [hydration |-> TRUE, fields |-> {}, rating |-> 1],
     [hydration |-> TRUE, fields |-> HOUSE_FIELD_MAP, rating |-> 1]}

\* what client.get gives for a page: the page with status 200, another
\* status, or an exception
Responses(pages) ==
    {[status_code |-> 200, text |-> h, raises |-> FALSE] : h \in pages}
    \cup {[status_code |-> 503, text |-> h, raises |-> r] :
             h \in {CHOOSE x \in pages : TRUE}, r \in BOOLEAN}

\* fetch_search_page, fetch_listing_page, fetch_house_page: the text of a
\* 200 response, None for any other status and for an exception
Fetch(resp) ==
    IF ~resp.raises /\ resp.status_code = 200
    THEN [ok |-> TRUE, html |-> resp.text]
    ELSE [ok |-> FALSE, html |-> resp.text]

\* ------------------------------------------------------------------ state
\* no extractor call is looked at on its own
NoCall == [fn |-> "none"]

Init ==
    /\ scan_state = InitialScanState
    /\ task = [t \in Tasks |-> NoLocals]
    /\ hist = NoHist
    /\ listings = [i \in ItemIds |-> AbsentListing]
    /\ houses = [a \in Addrs |-> AbsentHouse]
    /\ scan_progress = {}
    /\ pool \in BOOLEAN
    /\ clock = 0
    /\ db_now = 1
    /\ thr = NoThreads
    /\ extr = NoCall

Cur(t) == [ss |-> scan_state, l |-> task[t], h |-> hist]

Apply(t, c) ==
    /\ scan_state' = c.ss
    /\ task' = [task EXCEPT ![t] = c.l]
    /\ hist' = c.h

\* ------------------------------------------------------- main.py endpoints
\* POST /scan/start
start_scan(phase) ==
    /\ \E t \in Tasks : task[t].pc = "unused"
    /\ IF get_scan_status(scan_state).status = "running"
       THEN UNCHANGED task
       ELSE \E t \in Tasks :
               /\ task[t].pc = "unused"
               /\ \A u \in Tasks : u < t => task[u].pc # "unused"
               /\ task' = [task EXCEPT ![t].pc = "scheduled", ![t].phase = phase]
    /\ UNCHANGED <<scan_state, hist, listings, houses, scan_progress, pool, clock, db_now, thr, extr>>

\* request_stop without the status test of line 59
request_stop_unguarded(ss) ==
    [ss |-> [ss EXCEPT !.stop_requested = TRUE,
                       !.message = Msg("Stop requested, finishing current operation...", 0, 0)],
     ret |-> TRUE]

\* request_stop ending the scan itself instead of leaving it to the run
request_stop_sets_status(ss) ==
    IF ss.status = "running"
    THEN [ss |-> [ss EXCEPT !.stop_requested = TRUE, !.status = "stopped",
                            !.message = Msg("Stop requested, finishing current operation...", 0, 0)],
          ret |-> TRUE]
    ELSE [ss |-> ss, ret |-> FALSE]

\* scanner.request_stop: the new scan_state and the value returned
request_stop(ss) ==
    IF ss.status = "running"
    THEN [ss |-> [ss EXCEPT !.stop_requested = TRUE,
                            !.message = Msg("Stop requested, finishing current operation...", 0, 0)],
          ret |-> TRUE]
    ELSE [ss |-> ss, ret |-> FALSE]

\* POST /scan/stop
stop_scan ==
    /\ scan_state' = request_stop(scan_state).ss
    /\ UNCHANGED <<task, hist, listings, houses, scan_progress, pool, clock, db_now, thr, extr>>

\* GET /scan/status
scan_status ==
    /\ get_scan_status(scan_state).status = scan_state.status
    /\ UNCHANGED <<scan_state, task, hist, listings, houses, scan_progress, pool, clock, db_now, thr, extr>>

\* ------------------------------------------------------- run_full_scan
\* the reset of lines 84-96 without the guard of lines 81-83
Guard_unguarded(c, now) ==
    [c EXCEPT !.ss = [InitialScanState EXCEPT
                         !.status = "running", !.started_at = now,
                         !.message = Msg("Starting scan...", 0, 0)],
              !.l.pc = "entered",
              !.h = [NoHist EXCEPT !.enriched = c.h.enriched]]

\* a reset that leaves stop_requested as the previous run left it (no line 95)
Guard_keeps_stop(c, now) ==
    IF c.ss.status = "running"
    THEN [c EXCEPT !.l = [NoLocals EXCEPT !.pc = "rejected"]]
    ELSE [c EXCEPT !.ss = [InitialScanState EXCEPT
                              !.status = "running", !.started_at = now,
                              !.message = Msg("Starting scan...", 0, 0),
                              !.stop_requested = c.ss.stop_requested],
                   !.l.pc = "entered",
                   !.h = [NoHist EXCEPT !.enriched = c.h.enriched]]

\* lines 80-96: the guard and the reset, under the lock
Guard(c, now) ==
    IF c.ss.status = "running"
    THEN [c EXCEPT !.l = [NoLocals EXCEPT !.pc = "rejected"]]
    ELSE [c EXCEPT !.ss = [InitialScanState EXCEPT
                              !.status = "running", !.started_at = now,
                              !.message = Msg("Starting scan...", 0, 0)],
                   !.l.pc = "entered",
                   !.h = [NoHist EXCEPT !.enriched = c.h.enriched]]

run_full_scan(t) ==
    /\ task[t].pc = "scheduled"
    /\ LET c == Guard(Cur(t), clock + 1)
       IN /\ Apply(t, c)
          /\ clock' = IF c.l.pc = "entered" THEN clock + 1 ELSE clock
          /\ scan_progress' = IF c.l.pc = "entered" THEN {} ELSE scan_progress
    /\ UNCHANGED <<listings, houses, pool, db_now, thr, extr>>

\* lines 101-113: inside the client context, phase 1 or the check of line 107
Enter(t) ==
    /\ task[t].pc = "entered"
    /\ Apply(t, IF task[t].phase \in {"none", "1"} THEN BeginPhase1(Cur(t))
                ELSE AfterPhase1(Cur(t)))
    /\ UNCHANGED <<listings, houses, scan_progress, pool, clock, db_now, thr, extr>>

\* lines 115-119
Close(t) ==
    /\ task[t].pc = "closing"
    /\ Apply(t, Final(Cur(t)))
    /\ UNCHANGED <<listings, houses, scan_progress, pool, clock, db_now, thr, extr>>

\* lines 123-125
Except(t) ==
    /\ task[t].pc = "exc"
    /\ Apply(t, Failed(Cur(t)))
    /\ UNCHANGED <<listings, houses, scan_progress, pool, clock, db_now, thr, extr>>

\* database._ensure_pool: the pool once created stays; without one a call
\* tries to create it and may find the database unavailable
PoolChoices == IF pool THEN {TRUE} ELSE BOOLEAN

\* an override that makes every listing of the rent category rent_long
WithCategoryDefault_all_rent(cat_name, item) ==
    [item EXCEPT !.listing_type = IF cat_name = "rent" THEN "rent_long" ELSE @]

\* _run_phase1, lines 175-181: the category default of a stored listing
WithCategoryDefault(cat_name, item) ==
    [item EXCEPT !.listing_type =
        IF cat_name = "rent" /\ @ = "sale" THEN "rent_long" ELSE @]

\* _run_phase1, lines 168-186: upsert the items in order; the upserts whose
\* index is not in ok raise and are logged
RECURSIVE UpsertItems(_, _, _, _, _)
UpsertItems(tbl, cat_name, items, ok, n) ==
    IF n > Len(items) THEN tbl
    ELSE UpsertItems(IF n \in ok
                     THEN upsert_listing(tbl, WithCategoryDefault(cat_name, items[n]), db_now)
                     ELSE tbl,
                     cat_name, items, ok, n + 1)

Fetched(c, kind, cat, key, res) ==
    [c EXCEPT !.h.fetch = [kind |-> kind, cat |-> cat, key |-> key, res |-> res],
              !.h.streak = IF res = "fail" THEN @ + 1 ELSE 0]

Tripped(c, queue) ==
    [c EXCEPT !.h.tripped = @ \cup {[queue |-> queue, streak |-> c.h.streak]}]

\* a breaker that leaves _run_phase1 (return) instead of the category (break)
SearchFailed_leaves_phase(c) ==
    LET n == c.l.consecutive_errors + 1
        c1 == Fetched([c EXCEPT !.l.consecutive_errors = n],
                      "search", c.l.cat, c.l.page, "fail")
    IN IF n >= MAX_CONSECUTIVE_ERRORS
       THEN AfterPhase1(Tripped(c1, SEARCH_CATEGORIES[c.l.cat]))
       ELSE [c1 EXCEPT !.l.pc = "p1_sleep"]

\* _run_phase1, lines 150-157: fetch_search_page returned None
SearchFailed(c) ==
    LET n == c.l.consecutive_errors + 1
        c1 == Fetched([c EXCEPT !.l.consecutive_errors = n],
                      "search", c.l.cat, c.l.page, "fail")
    IN IF n >= MAX_CONSECUTIVE_ERRORS
       THEN CategoryLoop(Tripped(c1, SEARCH_CATEGORIES[c.l.cat]), c.l.cat + 1)
       ELSE [c1 EXCEPT !.l.pc = "p1_sleep"]

\* an empty page handled like a failed fetch: counted and followed by a sleep
SearchEmpty_counted(c) ==
    [Fetched([c EXCEPT !.l.consecutive_errors = @ + 1, !.ss.errors = @ + 1],
             "search", c.l.cat, c.l.page, "empty")
        EXCEPT !.l.pc = "p1_sleep"]

\* an empty page that ends the pagination of all categories
SearchEmpty_ends_all(c) ==
    CollectStart(Fetched(c, "search", c.l.cat, c.l.page, "empty"))

\* _run_phase1, lines 159-163: no items on the page
SearchEmpty(c) ==
    CategoryLoop(Fetched(c, "search", c.l.cat, c.l.page, "empty"), c.l.cat + 1)

\* a page with items that leaves consecutive_errors as it was (no line 165)
SearchItems_no_reset(c, items) ==
    LET c1 == Fetched(c, "search", c.l.cat, c.l.page, "items")
    IN [c1 EXCEPT !.ss.listings_found = @ + Len(items),
                  !.ss.done_pages = @ + 1,
                  !.h.item_pages = @ + 1,
                  !.h.extracted = {items[n].item_id : n \in 1..Len(items)}]

\* _run_phase1, lines 165-191: items on the page, up to the progress write
SearchItems(c, items) ==
    LET c1 == Fetched([c EXCEPT !.l.consecutive_errors = 0],
                      "search", c.l.cat, c.l.page, "items")
    IN [c1 EXCEPT !.ss.listings_found = @ + Len(items),
                  !.ss.done_pages = @ + 1,
                  !.h.item_pages = @ + 1,
                  !.h.extracted = {items[n].item_id : n \in 1..Len(items)}]

\* the step that ends the await of fetch_search_page (line 149) and runs to
\* the next suspension
FetchSearchDone(t) ==
    /\ task[t].pc = "p1_fetch"
    /\ \E resp \in Responses(SearchPagesAfter(SEARCH_CATEGORIES[task[t].cat], hist.item_pages)) :
        IF ~Fetch(resp).ok
        THEN /\ Apply(t, SearchFailed(Cur(t)))
             /\ UNCHANGED <<listings, scan_progress, pool>>
        ELSE LET items == parse_search_page(Fetch(resp).html)
                 cat_name == SEARCH_CATEGORIES[task[t].cat]
             IN IF items = <<>>
                THEN /\ Apply(t, SearchEmpty(Cur(t)))
                     /\ UNCHANGED <<listings, scan_progress, pool>>
                ELSE \E p \in PoolChoices, ok \in SUBSET (1..Len(items)),
                        saved \in BOOLEAN :
                       /\ pool' = p
                       /\ p \/ (ok = {} /\ saved)
                       /\ listings' = UpsertItems(listings, cat_name, items, ok, 1)
                       /\ IF ~p
                          THEN /\ Apply(t, [SearchItems(Cur(t), items) EXCEPT !.l.pc = "p1_sleep"])
                               /\ UNCHANGED scan_progress
                          ELSE IF saved
                          THEN /\ Apply(t, [SearchItems(Cur(t), items) EXCEPT !.l.pc = "p1_sleep"])
                               /\ scan_progress' = scan_progress \cup
                                    {[scan_id |-> t, phase |-> "phase1",
                                      subject |-> task[t].cat, page |-> task[t].page,
                                      status |-> "done", items_found |-> Len(items)]}
                          ELSE /\ Apply(t, Raise(SearchItems(Cur(t), items)))
                               /\ UNCHANGED scan_progress
    /\ UNCHANGED <<houses, clock, db_now, thr, extr>>

\* lines 155-156 and 199-200: the sleep ends, the page index advances
SearchSleepDone(t) ==
    /\ task[t].pc = "p1_sleep"
    /\ Apply(t, PageLoop([Cur(t) EXCEPT !.l.page = @ + 1]))
    /\ UNCHANGED <<listings, houses, scan_progress, pool, clock, db_now, thr, extr>>

\* _collect_address_ids, lines 265-271: the dict of the pre-created house
PreCreated(data) ==
    [slug |-> data.slug, address |-> data.address,
     lat |-> data.lat, lng |-> data.lng]

\* _collect_address_ids, lines 242-248: fetch_listing_page returned None
ListingFailed(c) ==
    LET n == c.l.consecutive_errors + 1
        c1 == Fetched([c EXCEPT !.l.consecutive_errors = n],
                      "listing", 0, c.l.rows[c.l.idx + 1], "fail")
    IN IF n >= MAX_CONSECUTIVE_ERRORS
       THEN AfterPhase1(Tripped(c1, "addr"))
       ELSE [c1 EXCEPT !.l.pc = "addr_sleep"]

\* _collect_address_ids, lines 250-277: a listing page was fetched
ListingFetched(c, res) ==
    [Fetched([c EXCEPT !.l.consecutive_errors = 0],
             "listing", 0, c.l.rows[c.l.idx + 1], res)
        EXCEPT !.l.pc = "addr_sleep"]

\* the step that ends the await of the SELECT (lines 211-229) and runs to the
\* first fetch_listing_page
AddrQueryDone(t) ==
    /\ task[t].pc = "addr_query"
    /\ \E p \in PoolChoices, raises \in BOOLEAN :
        /\ pool' = p
        /\ p \/ ~raises
        /\ LET rows == ListingsWithoutAddress(listings)
               c == Cur(t)
           IN IF ~p THEN Apply(t, AfterPhase1(c))
              ELSE IF raises THEN Apply(t, Raise(c))
              ELSE IF rows = <<>> THEN Apply(t, AfterPhase1(c))
              ELSE Apply(t, AddrLoop(
                       [c EXCEPT !.ss.message = Msg("Phase 1: Resolving addressIds", Len(rows), 0),
                                 !.l.rows = rows, !.l.idx = 0,
                                 !.l.consecutive_errors = 0,
                                 !.h.streak = 0]))
    /\ UNCHANGED <<listings, houses, scan_progress, clock, db_now, thr, extr>>

\* the step that ends the await of fetch_listing_page (line 241) and runs to
\* the sleep or out of the loop
FetchListingDone(t) ==
    /\ task[t].pc = "addr_fetch"
    /\ \E resp \in Responses(ListingPages(task[t].rows[task[t].idx + 1])) :
        IF ~Fetch(resp).ok
        THEN /\ Apply(t, ListingFailed(Cur(t)))
             /\ UNCHANGED <<listings, houses>>
        ELSE LET data == parse_listing_page(Fetch(resp).html)
                 item_id == task[t].rows[task[t].idx + 1]
             IN IF data.kind = "data" /\ data.address_id # NULL
                THEN \E updated \in BOOLEAN, created \in BOOLEAN :
                       /\ updated \/ ~created
                       /\ IF updated
                          THEN /\ listings' = set_address_id(listings, item_id,
                                                              data.address_id)
                               /\ Apply(t, ListingFetched(Cur(t), "resolved"))
                          ELSE /\ UNCHANGED listings
                               /\ Apply(t, Raise(Fetched(Cur(t), "listing", 0, item_id, "resolved")))
                       /\ houses' = IF created
                                    THEN upsert_house(houses, data.address_id,
                                                      PreCreated(data))
                                    ELSE houses
                ELSE /\ Apply(t, ListingFetched(Cur(t), "nodata"))
                     /\ UNCHANGED <<listings, houses>>
    /\ UNCHANGED <<scan_progress, pool, clock, db_now, thr, extr>>

\* a resolution loop that stays on its row
ListingSleepDone_same_row(t) ==
    /\ task[t].pc = "addr_sleep"
    /\ Apply(t, AddrLoop(Cur(t)))
    /\ UNCHANGED <<listings, houses, scan_progress, pool, clock, db_now, thr, extr>>

\* lines 247-248 and 277: the sleep ends, the loop takes the next row
ListingSleepDone(t) ==
    /\ task[t].pc = "addr_sleep"
    /\ Apply(t, AddrLoop([Cur(t) EXCEPT !.l.idx = @ + 1]))
    /\ UNCHANGED <<listings, houses, scan_progress, pool, clock, db_now, thr, extr>>

\* _run_phase2, lines 331-334: the dict of the enriched house (the keys
\* parse_house_page found, slug and raw_data)
Enriched(house_data) ==
    [k \in house_data.keys \cup {"slug", "raw_data"} |-> 1]

\* _run_phase2, lines 319-326: fetch_house_page returned None
HouseFailed(c) ==
    LET n == c.l.consecutive_errors + 1
        c1 == Fetched([c EXCEPT !.l.consecutive_errors = n,
                                !.ss.errors = @ + 1],
                      "house", 0, c.l.rows[c.l.idx + 1], "fail")
    IN IF n >= MAX_CONSECUTIVE_ERRORS
       THEN AfterPhase2([Tripped(c1, "p2") EXCEPT !.ss.done_houses = Len(c.l.rows)])
       ELSE [c1 EXCEPT !.l.pc = "p2_sleep"]

\* a phase 2 that counts a page without data as a failed fetch
HouseFetched_nodata_counted(c, res, counter) ==
    LET c1 == Fetched([c EXCEPT !.l.consecutive_errors =
                                    IF res = "nodata" THEN @ + 1 ELSE 0],
                      "house", 0, c.l.rows[c.l.idx + 1], res)
    IN [c1 EXCEPT !.ss.new_houses = IF counter = "new_houses" THEN @ + 1 ELSE @,
                  !.ss.errors = IF counter = "errors" THEN @ + 1 ELSE @,
                  !.l.pc = "p2_sleep"]

\* _run_phase2, lines 328-354: a house page was fetched; counter is the
\* scan_state counter this attempt increments
HouseFetched(c, res, counter) ==
    LET c1 == Fetched([c EXCEPT !.l.consecutive_errors = 0],
                      "house", 0, c.l.rows[c.l.idx + 1], res)
    IN [c1 EXCEPT !.ss.new_houses = IF counter = "new_houses" THEN @ + 1 ELSE @,
                  !.ss.errors = IF counter = "errors" THEN @ + 1 ELSE @,
                  !.l.pc = "p2_sleep"]

\* lines 336-337: upsert_house returned for a dict with characteristics
Committed(c, address_id) == [c EXCEPT !.h.enriched = @ \cup {address_id}]

ProgressEvent(t, subject, status, items_found) ==
    [scan_id |-> t, phase |-> "phase2", subject |-> subject, page |-> 0,
     status |-> status, items_found |-> items_found]

\* the step that ends the await of the SELECT (lines 284-304) and runs to the
\* first fetch_house_page
HouseQueryDone(t) ==
    /\ task[t].pc = "p2_query"
    /\ \E p \in PoolChoices, raises \in BOOLEAN :
        /\ pool' = p
        /\ p \/ ~raises
        /\ LET rows == HousesWithoutDetails(houses)
               c == Cur(t)
           IN IF ~p THEN Apply(t, AfterPhase2(c))
              ELSE IF raises THEN Apply(t, Raise(c))
              ELSE IF rows = <<>>
              THEN Apply(t, AfterPhase2(
                       [c EXCEPT !.ss.message = Msg("Phase 2: No new houses to process", 0, 0)]))
              ELSE Apply(t, HouseLoop(
                       [c EXCEPT !.ss.total_houses = Len(rows),
                                 !.ss.message = Msg("Phase 2: houses to process", Len(rows), 0),
                                 !.l.rows = rows, !.l.idx = 0,
                                 !.l.consecutive_errors = 0,
                                 !.h.streak = 0]))
    /\ UNCHANGED <<listings, houses, scan_progress, clock, db_now, thr, extr>>

\* the step that ends the await of fetch_house_page (line 318) and runs to
\* the sleep or out of the loop
FetchHouseDone(t) ==
    /\ task[t].pc = "p2_fetch"
    /\ \E resp \in Responses(HousePages) :
        IF ~Fetch(resp).ok
        THEN /\ Apply(t, HouseFailed(Cur(t)))
             /\ UNCHANGED <<houses, scan_progress>>
        ELSE LET house_data == parse_house_page(Fetch(resp).html)
                 address_id == task[t].rows[task[t].idx + 1]
             IN \E upserted \in BOOLEAN, saved \in BOOLEAN :
                 IF house_data.kind = "data"
                 THEN /\ houses' = IF upserted
                                   THEN upsert_house(houses, address_id,
                                                     Enriched(house_data))
                                   ELSE houses
                      /\ LET c0 == HouseFetched(Cur(t), "data",
                                      IF upserted THEN "new_houses" ELSE "errors")
                             c == IF upserted /\ house_data.keys \cap HOUSE_FIELD_MAP # {}
                                  THEN Committed(c0, address_id)
                                  ELSE c0
                         IN IF saved
                            THEN /\ Apply(t, c)
                                 /\ scan_progress' = scan_progress \cup
                                        {ProgressEvent(t, address_id, "done", 1)}
                            ELSE /\ Apply(t, Raise(c))
                                 /\ UNCHANGED scan_progress
                 ELSE /\ upserted
                      /\ UNCHANGED houses
                      /\ IF saved
                         THEN /\ Apply(t, HouseFetched(Cur(t), "nodata", "errors"))
                              /\ scan_progress' = scan_progress \cup
                                     {ProgressEvent(t, address_id, "error", 0)}
                         ELSE /\ Apply(t, Raise(HouseFetched(Cur(t), "nodata", "none")))
                              /\ UNCHANGED scan_progress
    /\ UNCHANGED <<listings, pool, clock, db_now, thr, extr>>

\* lines 325-326 and 354: the sleep ends, the loop takes the next row
HouseSleepDone(t) ==
    /\ task[t].pc = "p2_sleep"
    /\ Apply(t, HouseLoop([Cur(t) EXCEPT !.l.idx = @ + 1]))
    /\ UNCHANGED <<listings, houses, scan_progress, pool, clock, db_now, thr, extr>>

\* ------------------------------------------------------------- the system
Next ==
    \/ \E phase \in PhaseArgs : start_scan(phase)
    \/ stop_scan
    \/ scan_status
    \/ \E t \in Tasks :
        \/ run_full_scan(t)
        \/ Enter(t)
        \/ FetchSearchDone(t)
        \/ SearchSleepDone(t)
        \/ AddrQueryDone(t)
        \/ FetchListingDone(t)
        \/ ListingSleepDone(t)
        \/ HouseQueryDone(t)
        \/ FetchHouseDone(t)
        \/ HouseSleepDone(t)
        \/ Close(t)
        \/ Except(t)

Spec == Init /\ [][Next]_vars

\* the steps of one run_full_scan invocation
TaskStep(t) ==
    \/ run_full_scan(t)
    \/ Enter(t)
    \/ FetchSearchDone(t)
    \/ SearchSleepDone(t)
    \/ AddrQueryDone(t)
    \/ FetchListingDone(t)
    \/ ListingSleepDone(t)
    \/ HouseQueryDone(t)
    \/ FetchHouseDone(t)
    \/ HouseSleepDone(t)
    \/ Close(t)
    \/ Except(t)

\* The tables as earlier runs of an earlier process can have left them: the
\* listings of stored found and stored, those of resolved with their building
\* reference set and the building pre-created.
LeftListings(stored, resolved) ==
    [i \in ItemIds |->
        IF i \in stored
        THEN LET item == parse_search_page([hydration |-> TRUE, items |-> <<>>,
                                                   searchResult |-> <<RawItem(i, <<>>)>>])[1]
                 row == upsert_listing([j \in ItemIds |-> AbsentListing],
                                       WithCategoryDefault(CategoryOf(i), item), 1)
             IN set_address_id(row, i, IF i \in resolved THEN AddrOf(i) ELSE NULL)[i]
        ELSE AbsentListing]

LeftHouses(resolved) ==
    [a \in Addrs |->
        IF a \in {AddrOf(i) : i \in resolved}
        THEN LET data == parse_listing_page([hydration |-> TRUE, item |-> TRUE,
                                             house_id |-> a, address |-> 1,
                                             coords |-> 1])
             IN upsert_house([b \in Addrs |-> AbsentHouse], a, PreCreated(data))[a]
        ELSE AbsentHouse]

InitLive ==
    /\ scan_state = InitialScanState
    /\ task = [t \in Tasks |-> NoLocals]
    /\ hist = NoHist
    /\ \E stored \in {{}, ItemIds} : \E resolved \in SUBSET stored :
        /\ listings = LeftListings(stored, resolved)
        /\ houses = LeftHouses(resolved)
    /\ scan_progress = {}
    /\ pool = FALSE
    /\ clock = 0
    /\ db_now = 1
    /\ thr = NoThreads
    /\ extr = NoCall

\* one run of the scan from any of these tables
NextLive ==
    \/ \E phase \in PhaseArgs : task[1].pc = "unused" /\ start_scan(phase)
    \/ stop_scan
    \/ scan_status
    \/ \E t \in Tasks : TaskStep(t)

\* The event loop resumes a background task whenever the call it awaits has
\* returned or raised, and every fetch, sleep and storage call does one of
\* the two: a run that can take a step takes one.
FairSpec == InitLive /\ [][NextLive]_vars /\ \A t \in Tasks : WF_vars(TaskStep(t))

\* ------------------------------------- a scan over a table of buildings
\* The houses table as the address resolutions of earlier runs left it: the
\* buildings of left pre-created, none of them enriched.
PreCreatedHouses(left) ==
    [a \in Addrs |->
        IF a \in left
        THEN LET data == parse_listing_page([hydration |-> TRUE, item |-> TRUE,
                                             house_id |-> a, address |-> 1,
                                             coords |-> 1])
             IN upsert_house([b \in Addrs |-> AbsentHouse], a, PreCreated(data))[a]
        ELSE AbsentHouse]

InitEnrich ==
    /\ scan_state = InitialScanState
    /\ task = [t \in Tasks |-> NoLocals]
    /\ hist = NoHist
    /\ listings = [i \in ItemIds |-> AbsentListing]
    /\ \E left \in SUBSET Addrs : houses = PreCreatedHouses(left)
    /\ scan_progress = {}
    /\ pool = FALSE
    /\ clock = 0
    /\ db_now = 1
    /\ thr = NoThreads
    /\ extr = NoCall

\* one run of the scan over any of these tables
SpecEnrich == InitEnrich /\ [][NextLive]_vars

\* ------------------------------------- a scan after a stopped scan
\* A run of phase 1 without a database that fetched one page of the first
\* category and was stopped during the delay after it: the state in which
\* its invocation of run_full_scan returned.
StoppedRun ==
    LET c0 == [ss |-> InitialScanState,
               l |-> [NoLocals EXCEPT !.pc = "scheduled", !.phase = "1"],
               h |-> NoHist]
        c1 == BeginPhase1(Guard(c0, 1))
        html == CHOOSE h \in SearchPages(SEARCH_CATEGORIES[1]) :
                    Len(parse_search_page(h)) = 2
        c2 == SearchItems(c1, parse_search_page(html))
        c3 == [c2 EXCEPT !.ss = request_stop(c2.ss).ss]
    IN PageLoop([c3 EXCEPT !.l.page = @ + 1])

InitRestart ==
    /\ scan_state = StoppedRun.ss
    /\ task = [t \in Tasks |-> IF t = 1 THEN StoppedRun.l ELSE NoLocals]
    /\ hist = StoppedRun.h
    /\ listings = [i \in ItemIds |-> AbsentListing]
    /\ houses = [a \in Addrs |-> AbsentHouse]
    /\ scan_progress = {}
    /\ pool = FALSE
    /\ clock = 1
    /\ db_now = 1
    /\ thr = NoThreads
    /\ extr = NoCall

\* the requests and the runs that follow the stopped run
SpecRestart == InitRestart /\ [][Next]_vars

\* ------------------------------------- the listings table on its own
\* The operations on avito.listings applied in any order to any input the
\* extractors can produce, with the database clock advancing in between.
InitStore == Init /\ pool

Tick ==
    /\ db_now < MaxNow
    /\ db_now' = db_now + 1
    /\ UNCHANGED <<scan_state, task, hist, listings, houses, scan_progress, pool, clock, thr, extr>>

\* the prices the site shows
Prices == {1, 2}

\* the raw items a search page can hold for listing i: a price dict with a
\* postfix, or a bare number
RawItems(i) ==
    {[id |-> i, detailed |-> TRUE, price |-> p, postfix |-> px, urlPath |-> TRUE] :
        p \in Prices, px \in {<<>>, <<PER_MONTH>>, <<PER_DAY>>}}
    \cup {[id |-> i, detailed |-> FALSE, price |-> p, postfix |-> <<>>, urlPath |-> TRUE] :
        p \in Prices}

\* the search page that holds one raw item
PageOf(raw) == [hydration |-> TRUE, searchResult |-> <<raw>>, items |-> <<>>]

\* a page of one item found under a category goes through parse_search_page
\* and the loop of _run_phase1 into upsert_listing
StoreSearchItem ==
    /\ \E k \in 1..Len(SEARCH_CATEGORIES), i \in ItemIds : \E raw \in RawItems(i) :
        listings' = UpsertItems(listings, SEARCH_CATEGORIES[k],
                                parse_search_page(PageOf(raw)), {1}, 1)
    /\ UNCHANGED <<scan_state, task, hist, houses, scan_progress, pool, clock, db_now, thr, extr>>

\* the UPDATE of _collect_address_ids for a listing page that names a
\* building
StoreAddress ==
    /\ \E i \in ItemIds : \E html \in ListingPages(i) :
        LET data == parse_listing_page(html)
        IN /\ data.kind = "data" /\ data.address_id # NULL
           /\ listings' = set_address_id(listings, i, data.address_id)
    /\ UNCHANGED <<scan_state, task, hist, houses, scan_progress, pool, clock, db_now, thr, extr>>

NextStore == Tick \/ StoreSearchItem \/ StoreAddress

SpecStore == InitStore /\ [][NextStore]_vars

\* ------------------------------------------------ category inference
\* The path of one search item from the page to the listings table, for
\* every postfix text and both forms of the price.
FoundItems(i) ==
    {[id |-> i, detailed |-> TRUE, price |-> 1, postfix |-> px, urlPath |-> TRUE] :
        px \in Postfixes}
    \cup {[id |-> i, detailed |-> FALSE, price |-> 1, postfix |-> <<>>, urlPath |-> TRUE]}

\* one item found on a page of a category: parse_search_page, the category
\* default and upsert_listing (scanner.py lines 159-186)
DiscoverItem ==
    /\ \E k \in 1..Len(SEARCH_CATEGORIES), i \in ItemIds : \E raw \in FoundItems(i) :
        /\ listings' = UpsertItems(listings, SEARCH_CATEGORIES[k],
                                   parse_search_page(PageOf(raw)), {1}, 1)
        /\ hist' = [hist EXCEPT !.found = [raw |-> raw,
                                           cat_name |-> SEARCH_CATEGORIES[k],
                                           was_present |-> listings[i].present]]
    /\ UNCHANGED <<scan_state, task, houses, scan_progress, pool, clock, db_now, thr, extr>>

NextInfer == DiscoverItem

SpecInfer == InitStore /\ [][NextInfer]_vars

\* ------------------------------------------------ the extractors on their own
\* parse_search_page applied to every search page with up to MaxRaw items
\* under the primary key and up to MaxAlt under the secondary key, the items
\* being ones with an identifier, without one, or with one int() rejects.
MaxRaw == 3
MaxAlt == 2
BadId == 0 - 1
RawIds == {NULL, BadId, 1, 2}
RawSeqs(n) == UNION {[1..k -> {RawItem(i, <<>>) : i \in RawIds}] : k \in 0..n}

InitParse ==
    /\ Init
    /\ pool

\* a page arrives
TakeSearchPage ==
    /\ extr.fn = "none"
    /\ \E hydration \in BOOLEAN, primary \in RawSeqs(MaxRaw), secondary \in RawSeqs(MaxAlt) :
        extr' = [fn |-> "page",
                 html |-> [hydration |-> hydration, searchResult |-> primary,
                           items |-> secondary]]
    /\ UNCHANGED <<scan_state, task, hist, listings, houses, scan_progress, pool,
                   clock, db_now, thr>>

\* parse_search_page(html)
ParseSearchPage ==
    /\ extr.fn = "page"
    /\ extr' = [fn |-> "parse_search_page", html |-> extr.html,
                result |-> parse_search_page(extr.html)]
    /\ UNCHANGED <<scan_state, task, hist, listings, houses, scan_progress, pool,
                   clock, db_now, thr>>

NextParse == TakeSearchPage \/ ParseSearchPage

SpecParse == InitParse /\ [][NextParse]_vars

\* The characteristics of parse_house_page on loader subtrees: a value is a
\* dict (kind "dict", its values in entries) or a list of dicts (kind
\* "list"); a {title, value} dict has no entries, its title is the column
\* HOUSE_FIELD_MAP gives for it ("other" for a title that is not a key of the
\* map) and its value is set or empty.
MaxDepth == 7
DEEP_SEARCH_LIMIT == 5

PairDict(title, value) ==
    [kind |-> "dict", title |-> title, value |-> value, entries |-> <<>>]

PlainDict(entries) ==
    [kind |-> "dict", title |-> "", value |-> FALSE, entries |-> entries]

\* the value found keys keys below the enclosing dict, each on the way a
\* dict with that one key
RECURSIVE Below(_, _)
Below(keys, leaf) ==
    IF keys <= 1 THEN leaf ELSE PlainDict(<<Below(keys - 1, leaf)>>)

\* a deep search without the test of line 357
RECURSIVE deep_search_unbounded(_, _)
deep_search_unbounded(data, depth) ==
    LET OfDict(val) ==
            IF val.title \in HOUSE_FIELD_MAP /\ val.value
            THEN {val.title}
            ELSE deep_search_unbounded(val, depth + 1)
        OfValue(val) ==
            IF val.kind = "dict" THEN OfDict(val)
            ELSE UNION {OfDict(val.elems[n]) : n \in DOMAIN val.elems}
    IN UNION {OfValue(data.entries[n]) : n \in DOMAIN data.entries}

\* _deep_search_house_fields(data, depth): the columns it returns
RECURSIVE deep_search_house_fields(_, _)
deep_search_house_fields(data, depth) ==
    IF depth > DEEP_SEARCH_LIMIT THEN {}
    ELSE LET OfDict(val) ==
                 IF val.title \in HOUSE_FIELD_MAP /\ val.value
                 THEN {val.title}
                 ELSE deep_search_house_fields(val, depth + 1)
             OfValue(val) ==
                 IF val.kind = "dict" THEN OfDict(val)
                 ELSE UNION {OfDict(val.elems[n]) : n \in DOMAIN val.elems}
         IN UNION {OfValue(data.entries[n]) : n \in DOMAIN data.entries}

\* parse_house_page, lines 283-318: the characteristics, from the
\* recognized containers (containers: the columns they yield) or else from
\* the deep search of the loader
HouseCharacteristics(page) ==
    IF page.containers # {} THEN page.containers
    ELSE deep_search_house_fields(page.loader, 0)

\* a house page arrives: its recognized containers yield a column or none,
\* and elsewhere a {title, value} dict lies keys keys below the loader,
\* directly or as the element of a list
TakeHousePage ==
    /\ extr.fn = "none"
    /\ \E containers \in {{}, {"build_year"}}, keys \in 1..MaxDepth,
          title \in {"house_type", "other"}, value \in BOOLEAN, in_list \in BOOLEAN :
        LET pair == PairDict(title, value)
            leaf == IF in_list THEN [kind |-> "list", elems |-> <<pair>>] ELSE pair
        IN extr' = [fn |-> "house_page",
                    page |-> [containers |-> containers,
                              loader |-> PlainDict(<<Below(keys, leaf)>>)],
                    keys |-> keys, title |-> title, value |-> value,
                    in_list |-> in_list]
    /\ UNCHANGED <<scan_state, task, hist, listings, houses, scan_progress, pool,
                   clock, db_now, thr>>

\* parse_house_page up to line 318
ExtractCharacteristics ==
    /\ extr.fn = "house_page"
    /\ extr' = [extr EXCEPT !.fn = "parse_house_page"] @@
               [result |-> HouseCharacteristics(extr.page)]
    /\ UNCHANGED <<scan_state, task, hist, listings, houses, scan_progress, pool,
                   clock, db_now, thr>>

NextDeep == TakeHousePage \/ ExtractCharacteristics

SpecDeep == InitParse /\ [][NextDeep]_vars

\* ------------------------------------------- scan_state under its lock
\* The critical sections of scanner.py one assignment and one read at a
\* time, for a thread that reads the status while another thread writes.
\* the lock admits any thread at any time
LockFree_always(m) == TRUE

\* `with scan_state["lock"]` can be entered
LockFree(m) == m.lock = "free"

\* lines 84-96: the assignments of the reset, in order
ResetWrites(at_time) ==
    <<<<"status", "running">>, <<"phase", "none">>, <<"category", "none">>,
      <<"total_pages", 0>>, <<"done_pages", 0>>, <<"total_houses", 0>>,
      <<"done_houses", 0>>, <<"new_houses", 0>>, <<"listings_found", 0>>,
      <<"errors", 0>>, <<"started_at", at_time>>,
      <<"message", Msg("Starting scan...", 0, 0)>>,
      <<"stop_requested", FALSE>>>>

\* the assignments of one critical section, by the code that enters it
WritesOf(op, ss, at_time) ==
    CASE op = "reset" ->
            IF ss.status = "running" THEN <<>> ELSE ResetWrites(at_time)
      [] op = "page" ->
            <<<<"listings_found", ss.listings_found + 1>>,
              <<"done_pages", ss.done_pages + 1>>>>
      [] op = "final" ->
            <<<<"status", "completed">>,
              <<"message", Msg("completed", ss.new_houses, ss.listings_found)>>>>
      [] op = "stop" ->
            IF ss.status = "running"
            THEN <<<<"stop_requested", TRUE>>,
                   <<"message", Msg("Stop requested, finishing current operation...", 0, 0)>>>>
            ELSE <<>>

RECURSIVE ApplyWrites(_, _)
ApplyWrites(ss, writes) ==
    IF writes = <<>> THEN ss
    ELSE ApplyWrites([ss EXCEPT ![Head(writes)[1]] = Head(writes)[2]], Tail(writes))

LockRest == <<task, hist, listings, houses, scan_progress, pool, db_now, extr>>

\* run_full_scan line 80, _update_state line 67, request_stop line 58: the
\* writer enters a critical section
WriterEnter ==
    /\ LockFree(thr)
    /\ thr.w.pc = "idle"
    /\ \E op \in {"reset", "page", "final", "stop"} :
        /\ op = "reset" => clock < MaxStarts
        /\ op \in {"page", "final"} => scan_state.status = "running"
        /\ op = "page" => scan_state.done_pages < MaxPage * Len(SEARCH_CATEGORIES)
        /\ thr' = [thr EXCEPT !.lock = "w", !.w.pc = "locked",
                               !.w.pending = WritesOf(op, scan_state, clock + 1)]
        /\ clock' = IF op = "reset" /\ scan_state.status # "running"
                    THEN clock + 1 ELSE clock
    /\ UNCHANGED <<scan_state, LockRest>>

\* one assignment scan_state[k] = v
WriterWrite ==
    /\ thr.w.pc = "locked"
    /\ thr.w.pending # <<>>
    /\ scan_state' = ApplyWrites(scan_state, <<Head(thr.w.pending)>>)
    /\ thr' = [thr EXCEPT !.w.pending = Tail(@)]
    /\ UNCHANGED <<clock, LockRest>>

\* the writer leaves the with block
WriterLeave ==
    /\ thr.w.pc = "locked"
    /\ thr.w.pending = <<>>
    /\ thr' = [thr EXCEPT !.lock = "free", !.w.pc = "idle"]
    /\ UNCHANGED <<scan_state, clock, LockRest>>

\* get_scan_status line 40: the reader enters the critical section
ReaderEnter ==
    /\ LockFree(thr)
    /\ thr.r.pc \in {"idle", "returned"}
    /\ thr' = [thr EXCEPT !.lock = IF thr.lock = "free" THEN "r" ELSE @,
                           !.r = [pc |-> "locked", n |-> 0,
                                  snap |-> get_scan_status(InitialScanState),
                                  at |-> scan_state]]
    /\ UNCHANGED <<scan_state, clock, LockRest>>

\* lines 42-53: one "key": scan_state["key"] of the dict display
ReaderRead ==
    /\ thr.r.pc = "locked"
    /\ thr.r.n < Len(StatusKeys)
    /\ LET k == StatusKeys[thr.r.n + 1]
       IN thr' = [thr EXCEPT !.r.n = @ + 1, !.r.snap[k] = scan_state[k]]
    /\ UNCHANGED <<scan_state, clock, LockRest>>

\* the dict is returned and the lock released
ReaderLeave ==
    /\ thr.r.pc = "locked"
    /\ thr.r.n = Len(StatusKeys)
    /\ thr' = [thr EXCEPT !.lock = IF thr.lock = "r" THEN "free" ELSE @,
                           !.r.pc = "returned"]
    /\ UNCHANGED <<scan_state, clock, LockRest>>

NextLock ==
    \/ WriterEnter
    \/ WriterWrite
    \/ WriterLeave
    \/ ReaderEnter
    \/ ReaderRead
    \/ ReaderLeave

SpecLock == Init /\ [][NextLock]_vars

\* ------------------------------------------------------------- properties
\* positions at which an invocation is past the guard and has not returned
ActivePcs ==
    {"entered", "p1_fetch", "p1_sleep", "addr_query", "addr_fetch",
     "addr_sleep", "p2_query", "p2_fetch", "p2_sleep", "closing", "exc"}
\* positions at which a fetch is in flight
FetchPcs == {"p1_fetch", "addr_fetch", "p2_fetch"}
Phase1Pcs == {"p1_fetch", "p1_sleep", "addr_query", "addr_fetch", "addr_sleep"}
Phase2Pcs == {"p2_query", "p2_fetch", "p2_sleep"}
TerminalStatuses == {"completed", "error", "stopped"}

Active(t) == task[t].pc \in ActivePcs

\* C1: at most one invocation of run_full_scan is past the guard at any time,
\* status is `running` exactly while one is, and an invocation that reaches
\* the guard while status is `running` returns there leaving every field of
\* scan_state (counters and stop_requested included) as it was.
C1_SingleRunningScan ==
    /\ [](/\ Cardinality({t \in Tasks : Active(t)}) <= 1
          /\ (scan_state.status = "running") <=> (\E t \in Tasks : Active(t)))
    /\ [][\A t \in Tasks :
            (task[t].pc = "scheduled" /\ task'[t].pc # "scheduled"
                /\ scan_state.status = "running")
            => (scan_state' = scan_state /\ task'[t].pc = "rejected")]_vars

\* C1 witness: an invocation was turned away at the guard while the run in
\* progress had already counted listings.
C1_Witness ==
    \E t, u \in Tasks :
        /\ task[t].pc = "rejected"
        /\ Active(u)
        /\ scan_state.listings_found > 0

\* C2: status changes only along idle/terminal -> running (by an invocation
\* passing the guard) and running -> completed | error | stopped (by the
\* invocation that returns); no other step changes it.
C2_StatusEdges ==
    [][scan_state'.status # scan_state.status =>
        \/ /\ scan_state.status \in {"idle"} \cup TerminalStatuses
           /\ scan_state'.status = "running"
           /\ \E t \in Tasks : task[t].pc = "scheduled" /\ task'[t].pc = "entered"
        \/ /\ scan_state.status = "running"
           /\ scan_state'.status \in TerminalStatuses
           /\ \E t \in Tasks : Active(t) /\ task'[t].pc = "done"]_vars

\* C2 witness: a second run is running, started from the terminal status of
\* the first.
C2_Witness ==
    /\ scan_state.status = "running"
    /\ clock = 2
    /\ \E t \in Tasks : task[t].pc = "done"

\* C3: a stop request made while status is not `running` returns false and
\* leaves scan_state as it was; one made while `running` sets stop_requested
\* and returns true; stop_requested never turns true outside `running`.
C3_StopOnlyWhileRunning ==
    [][/\ stop_scan =>
            IF scan_state.status = "running"
            THEN /\ request_stop(scan_state).ret
                 /\ scan_state'.stop_requested
                 /\ scan_state'.status = "running"
            ELSE /\ ~request_stop(scan_state).ret
                 /\ scan_state' = scan_state
       /\ (~scan_state.stop_requested /\ scan_state'.stop_requested)
            => (scan_state.status = "running" /\ scan_state'.status = "running")]_vars

\* C3 witness: a stop request took effect during the second run, after the
\* first run had ended and stop requests were refused in between.
C3_Witness ==
    /\ scan_state.status = "running"
    /\ scan_state.stop_requested
    /\ clock = 2

\* C4: whenever status is terminal it is `stopped` exactly if a stop check of
\* the run returned true, `error` exactly if an exception escaped the phases,
\* and `completed` otherwise, whatever categories or queues the circuit
\* breaker abandoned and whatever pages were empty.
C4_TerminalStatus ==
    scan_state.status \in TerminalStatuses =>
        /\ (scan_state.status = "error") <=> hist.raised
        /\ (scan_state.status = "stopped") <=> hist.stop_seen
        /\ (scan_state.status = "completed") <=> (~hist.stop_seen /\ ~hist.raised)

\* C4 witness: a run ended in `error` after a storage call raised, although
\* a stop had been requested while it ran.
C4_Witness ==
    /\ scan_state.status = "error"
    /\ hist.raised
    /\ scan_state.stop_requested

LoopPcs == FetchPcs \cup {"p1_sleep", "addr_sleep", "p2_sleep"}
TrippedQueues(h) == {x.queue : x \in h.tripped}
NewlyTripped(q) == q \notin TrippedQueues(hist) /\ q \in TrippedQueues(hist')
\* task t takes a step
Steps(t) == task'[t] # task[t]

\* C5 (as the specification states it): while a search fetch is in flight
\* and the last completed fetch was a failed fetch of page p of the same
\* category in this run, the fetch in flight is for page p again.
C5_RetrySamePage ==
    \A t \in Tasks :
        (/\ task[t].pc = "p1_fetch"
         /\ hist.fetch.kind = "search"
         /\ hist.fetch.res = "fail"
         /\ hist.fetch.cat = task[t].cat)
        => task[t].page = hist.fetch.key

\* C6 (as the specification states it): while a listing or house fetch is in
\* flight and the last completed fetch of that pass failed for item i, the
\* fetch in flight targets item i again.
C6_RetryInPlace ==
    \A t \in Tasks :
        /\ (/\ task[t].pc = "addr_fetch"
            /\ hist.fetch.kind = "listing"
            /\ hist.fetch.res = "fail")
           => task[t].rows[task[t].idx + 1] = hist.fetch.key
        /\ (/\ task[t].pc = "p2_fetch"
            /\ hist.fetch.kind = "house"
            /\ hist.fetch.res = "fail")
           => task[t].rows[task[t].idx + 1] = hist.fetch.key

\* C7: inside each of the three loops consecutive_errors equals the number
\* of failed fetches since the category/queue began or since its last
\* successful fetch, and stays below MAX_CONSECUTIVE_ERRORS; every category
\* or queue the breaker abandoned was abandoned with exactly
\* MAX_CONSECUTIVE_ERRORS uninterrupted failures.
C7_ConsecutiveFailuresOnly ==
    /\ \A t \in Tasks :
        task[t].pc \in LoopPcs =>
            /\ task[t].consecutive_errors = hist.streak
            /\ hist.streak < MAX_CONSECUTIVE_ERRORS
    /\ \A x \in hist.tripped : x.streak = MAX_CONSECUTIVE_ERRORS

\* C7 witness: category sale was abandoned at its fourth page, after a
\* failure, a page with items and two more failures: three failures in all,
\* of which only the last two tripped the breaker.
C7_Witness ==
    /\ [queue |-> "sale", streak |-> MAX_CONSECUTIVE_ERRORS] \in hist.tripped
    /\ hist.fetch = [kind |-> "search", cat |-> 1, key |-> 4, res |-> "fail"]
    /\ scan_state.done_pages = 1
    /\ \E t \in Tasks : task[t].pc = "p1_fetch" /\ task[t].cat = 2

\* C8: the step in which the breaker trips in a listing category goes on,
\* unless a stop is pending, to the first page of the next category or, after
\* the last category, to the address resolution; the step in which it trips
\* in the address resolution leaves the stored listings and buildings as they
\* are and, unless a stop is pending, starts phase 2 in a full scan; a
\* tripping step never raises, and status `error` only follows an exception.
C8_AbortEndsOnlyQueue ==
    /\ [][\A t \in Tasks : (Active(t) /\ Steps(t)) =>
            /\ \A k \in 1..Len(SEARCH_CATEGORIES) :
                (NewlyTripped(SEARCH_CATEGORIES[k]) /\ ~scan_state.stop_requested) =>
                    IF k < Len(SEARCH_CATEGORIES)
                    THEN /\ task'[t].pc = "p1_fetch"
                         /\ task'[t].cat = k + 1
                         /\ task'[t].page = 1
                         /\ scan_state'.category = SEARCH_CATEGORIES[k + 1]
                    ELSE task'[t].pc = "addr_query"
            /\ NewlyTripped("addr") =>
                /\ listings' = listings
                /\ houses' = houses
                /\ ~scan_state.stop_requested =>
                     IF task[t].phase = "none"
                     THEN task'[t].pc = "p2_query" /\ scan_state'.phase = "phase2_houses"
                     ELSE task'[t].pc = "closing"
            /\ (\E q \in {"sale", "rent", "addr", "p2"} : NewlyTripped(q)) =>
                /\ task'[t].pc \notin {"exc"}
                /\ ~hist'.raised
                /\ scan_state'.status \in {"running", "stopped"}]_vars
    /\ [](scan_state.status = "error" => hist.raised)

\* C8 witness: a full scan completed through phase 2 although the breaker
\* had tripped in category sale and in the address resolution, and a listing
\* resolved before the trip still has its building.
C8_Witness ==
    /\ scan_state.status = "completed"
    /\ scan_state.phase = "phase2_houses"
    /\ {"sale", "addr"} \subseteq TrippedQueues(hist)
    /\ \E i \in ItemIds : listings[i].present /\ listings[i].address_id # NULL
    /\ clock = 1

\* C9: the step that ends a search fetch with a page from which no listing
\* is extracted (a page that does not decode is one) changes neither the
\* errors counter nor the stored listings nor the set of tripped breakers,
\* does not raise consecutive_errors, is not followed by a sleep and a retry,
\* and unless a stop is pending goes to the first page of the next category
\* or, after the last category, to the address resolution.
C9_EmptyPageEndsPagination ==
    /\ [][\A t \in Tasks :
            (/\ task[t].pc = "p1_fetch"
             /\ Steps(t)
             /\ hist'.fetch.kind = "search"
             /\ hist'.fetch.res = "empty")
            => /\ hist'.fetch.cat = task[t].cat /\ hist'.fetch.key = task[t].page
               /\ scan_state'.errors = scan_state.errors
               /\ scan_state'.done_pages = scan_state.done_pages
               /\ listings' = listings
               /\ hist'.tripped = hist.tripped
               /\ task'[t].consecutive_errors <= task[t].consecutive_errors
               /\ task'[t].pc # "p1_sleep"
               /\ ~(task'[t].pc = "p1_fetch" /\ task'[t].cat = task[t].cat)
               /\ ~scan_state.stop_requested =>
                    IF task[t].cat < Len(SEARCH_CATEGORIES)
                    THEN /\ task'[t].pc = "p1_fetch"
                         /\ task'[t].cat = task[t].cat + 1
                         /\ task'[t].page = 1
                         /\ task'[t].consecutive_errors = 0
                    ELSE task'[t].pc = "addr_query"]_vars
    /\ [](\A cat_name \in {"sale", "rent"} : \A h \in SearchPages(cat_name) :
            ~h.hydration => parse_search_page(h) = <<>>)

\* C9 witness: category rent is being paginated after category sale ended on
\* an empty third page that followed a failed fetch, with no error counted.
C9_Witness ==
    /\ \E t \in Tasks : task[t].pc = "p1_fetch" /\ task[t].cat = 2
                        /\ task[t].consecutive_errors = 0
    /\ hist.fetch = [kind |-> "search", cat |-> 1, key |-> 3, res |-> "empty"]
    /\ scan_state.done_pages = 1
    /\ scan_state.errors = 0
    /\ hist.tripped = {}

\* C10: no step that issues a fetch starts with stop_requested true; a step
\* of the run at a loop head with stop_requested true records the stop and
\* leaves the pass without touching the stored data (with rows left in the
\* queue it returns at the check), in phase 1 returning with status
\* `stopped`; and no step that starts in phase 1 with
\* stop_requested true ever leads into phase 2 or to the normal completion.
C10_StopCheckedBeforeFetch ==
    [][\A t \in Tasks : (Active(t) /\ Steps(t) /\ scan_state.stop_requested) =>
        /\ task'[t].pc \notin FetchPcs
        /\ task[t].pc \in {"p1_sleep", "addr_sleep"} =>
            /\ task'[t].pc = "done"
            /\ scan_state'.status = "stopped"
            /\ scan_state'.phase = "phase1_search"
            /\ hist'.stop_seen
            /\ listings' = listings /\ houses' = houses
        /\ task[t].pc = "p2_sleep" =>
            /\ task'[t].pc = "closing"
            /\ task[t].idx + 1 < Len(task[t].rows) =>
                 (hist'.stop_seen /\ scan_state'.done_houses = scan_state.done_houses)
            /\ listings' = listings /\ houses' = houses
        /\ (task[t].pc \in Phase1Pcs \/ (task[t].pc = "entered" /\ task[t].phase # "2")) =>
            /\ task'[t].pc \in {"p1_sleep", "addr_query", "addr_sleep", "exc", "done"}
            /\ task'[t].pc = "done" => scan_state'.status = "stopped"
            /\ scan_state'.total_houses = 0]_vars

\* C10 witness: a scan ended `stopped` in phase 1 while paginating
\* category sale with a page already stored: category rent, the address
\* resolution and phase 2 never started.
C10_Witness ==
    /\ scan_state.status = "stopped"
    /\ hist.stop_seen
    /\ scan_state.phase = "phase1_search"
    /\ scan_state.category = "sale"
    /\ scan_state.done_pages = 1
    /\ hist.fetch.kind = "search"
    /\ scan_state.total_houses = 0
    /\ \E t \in Tasks : task[t].pc = "done"

\* C11: in every state the storage can reach, upserting any listing the
\* extractor can produce leaves the table with one present row under its
\* item_id and every other row as it was, and if the row was there it keeps
\* every column except price and last_seen_at, which become the new price
\* and NOW(); no step of the storage changes first_seen_at, listing_type or
\* url of a stored row or removes it.
C11_UpsertListingIdempotent ==
    /\ [](\A i \in ItemIds : \A raw \in RawItems(i) :
            LET listing == parse_search_page(PageOf(raw))[1]
                after == upsert_listing(listings, listing, db_now)
            IN /\ DOMAIN after = ItemIds
               /\ after[i].present
               /\ \A j \in ItemIds \ {i} : after[j] = listings[j]
               /\ listings[i].present =>
                    after[i] = [listings[i] EXCEPT !.price = listing.price,
                                                   !.last_seen_at = db_now]
               /\ upsert_listing(after, listing, db_now) = after)
    /\ [][\A i \in ItemIds : listings[i].present =>
            /\ listings'[i].present
            /\ listings'[i].first_seen_at = listings[i].first_seen_at
            /\ listings'[i].listing_type = listings[i].listing_type
            /\ listings'[i].url = listings[i].url
            /\ listings'[i].price # listings[i].price =>
                 listings'[i].last_seen_at = db_now]_vars

\* C11 witness: a resolved listing first seen at time 1 was upserted again
\* at a later time with another price.
C11_Witness ==
    \E i \in ItemIds :
        /\ listings[i].present
        /\ listings[i].first_seen_at = 1
        /\ listings[i].last_seen_at = MaxNow
        /\ listings[i].price = 2
        /\ listings[i].address_id # NULL
        /\ listings[i].listing_type = "rent_short"

\* C12 (as the specification states it): no step changes a column of a
\* stored building from a non-null value to null.
C12_NoNullClobber ==
    [][\A a \in Addrs : \A x \in HOUSE_FIELDS :
          (houses[a].present /\ houses[a].f[x] # NULL) => houses'[a].f[x] # NULL]_vars

\* the elements of a sequence
Range(seq) == {seq[n] : n \in 1..Len(seq)}

\* C13: a listing with a building reference is not in the selection of
\* listings lacking one; the step that ends a listing fetch with a building
\* identity extracted and the UPDATE done leaves the listing with that
\* reference; and a resolution pass that starts when every stored listing
\* has a reference issues no listing fetch.
C13_ResolutionResumable ==
    /\ [](\A i \in ItemIds :
            (listings[i].present /\ listings[i].address_id # NULL)
            => i \notin Range(ListingsWithoutAddress(listings)))
    /\ [][\A t \in Tasks :
            /\ (/\ task[t].pc = "addr_fetch"
                /\ Steps(t)
                /\ hist'.fetch.res = "resolved"
                /\ ~hist'.raised)
               => /\ listings'[hist'.fetch.key].address_id = AddrOf(hist'.fetch.key)
                  /\ hist'.fetch.key \notin Range(ListingsWithoutAddress(listings'))
            /\ (/\ task[t].pc = "addr_query"
                /\ Steps(t)
                /\ \A i \in ItemIds : listings[i].present => listings[i].address_id # NULL)
               => task'[t].pc \notin {"addr_fetch", "addr_sleep"}]_vars

\* C13 witness: the second run went through discovery and its resolution
\* pass to phase 2 without a listing fetch, every stored listing having been
\* resolved by the first run.
C13_Witness ==
    /\ clock = 2
    /\ \E t \in Tasks : task[t].pc = "p2_query"
    /\ hist.fetch.kind = "search"
    /\ \A i \in ItemIds : listings[i].present /\ listings[i].address_id # NULL

\* C14 (as the specification states it): a building for which an upsert of
\* extracted characteristics succeeded is never the target of a later
\* catalog fetch.
C14_EnrichedNotReprocessed ==
    \A t \in Tasks :
        task[t].pc = "p2_fetch" => task[t].rows[task[t].idx + 1] \notin hist.enriched

\* C15: no step removes a stored listing or changes a building reference
\* that is set, and a reference becomes set only in the step that ends the
\* fetch of that listing's page in the resolution pass with a building
\* identity extracted.
C15_BuildingReferenceSetOnce ==
    [][\A i \in ItemIds : listings[i].present =>
        /\ listings'[i].present
        /\ listings[i].address_id # NULL =>
             listings'[i].address_id = listings[i].address_id
        /\ (listings[i].address_id = NULL /\ listings'[i].address_id # NULL) =>
             \E t \in Tasks :
                /\ task[t].pc = "addr_fetch"
                /\ task[t].rows[task[t].idx + 1] = i
                /\ hist'.fetch = [kind |-> "listing", cat |-> 0, key |-> i,
                                  res |-> "resolved"]]_vars

\* C15 witness: in the second run a page with items was stored again while
\* a listing resolved by the first run was in the table, and the run went on
\* to enrichment.
C15_Witness ==
    /\ clock = 2
    /\ scan_state.listings_found > 0
    /\ scan_state.phase = "phase2_houses"
    /\ \E i \in hist.extracted : listings[i].address_id # NULL
    /\ hist.fetch.kind = "house"

\* C16 (as the specification states it): while a fetch is in flight every
\* listing extracted from the last page with items is stored.
C16_PersistedBeforeNextFetch ==
    \A t \in Tasks :
        task[t].pc \in FetchPcs => \A i \in hist.extracted : listings[i].present

\* C17: the dict get_scan_status returns equals the reported fields of
\* scan_state as they were at the instant the reader took the lock, and
\* scan_state does not change while the reader is inside; the assignments of
\* the reset, made one at a time, add up to the reset of the scan model.
C17_SnapshotAtomic ==
    /\ thr.r.pc = "returned" => thr.r.snap = get_scan_status(thr.r.at)
    /\ thr.r.pc = "locked" => scan_state = thr.r.at
    /\ ~(thr.r.pc = "locked" /\ thr.w.pc = "locked")
    /\ scan_state.status # "running" =>
         ApplyWrites(scan_state, ResetWrites(clock + 1))
           = Guard([ss |-> scan_state, l |-> NoLocals, h |-> NoHist], clock + 1).ss

\* C17 witness: a snapshot was returned of a finished first run with counted
\* pages, while the writer is in the middle of the reset of the second run.
C17_Witness ==
    /\ thr.r.pc = "returned"
    /\ thr.r.snap.status = "completed"
    /\ thr.r.snap.done_pages > 0
    /\ thr.w.pc = "locked"
    /\ Len(thr.w.pending) = 5
    /\ scan_state.status = "running"
    /\ scan_state.listings_found > 0

\* C18: after an item found under a category was stored, the row inserted
\* for it has listing_type rent_long when the postfix contains the per-month
\* marker, rent_short when it contains the per-day marker (and not the
\* per-month one), and otherwise (no marker, empty postfix, bare number)
\* sale under the sale category and rent_long under the rent category; under
\* the sale category the type is the one inferred from the postfix; a row
\* that was there keeps its type.
C18_CategoryInference ==
    LET f == hist.found
        i == f.raw.id
        px == f.raw.postfix
        month == f.raw.detailed /\ Contains(PER_MONTH, px)
        day == f.raw.detailed /\ Contains(PER_DAY, px)
        stored == listings[i].listing_type
    IN (f.cat_name # "none" /\ ~f.was_present) =>
        /\ listings[i].present
        /\ month => stored = "rent_long"
        /\ (day /\ ~month) => stored = "rent_short"
        /\ (~day /\ ~month) =>
             stored = IF f.cat_name = "rent" THEN "rent_long" ELSE "sale"
        /\ f.cat_name = "sale" =>
             stored = IF f.raw.detailed THEN ListingTypeOf(px) ELSE "sale"
        /\ (stored = "rent_long" /\ ~month)
             <=> (~day /\ ~month /\ f.cat_name = "rent")

\* C18 witness: a listing whose postfix holds the per-day marker after other
\* text was found under rent and stored as rent_short, next to a listing
\* stored as sale and one stored as rent_long.
C18_Witness ==
    /\ hist.found.cat_name = "rent"
    /\ ~hist.found.was_present
    /\ hist.found.raw.postfix = <<"text", PER_DAY>>
    /\ listings[hist.found.raw.id].listing_type = "rent_short"
    /\ \E j \in ItemIds : listings[j].present /\ listings[j].listing_type = "sale"
    /\ \E j \in ItemIds : listings[j].present /\ listings[j].listing_type = "rent_long"

\* C19: a run started with phase "1" is never in phase 2 and completes no
\* fetch of a building page; a run started with phase "2" is never in phase
\* 1 and completes no fetch of a search or listing page; a run passes from
\* the guard into phase 1 unless its phase is "2", into phase 2 only from the
\* guard with phase "2" or from phase 1 without a phase argument, and from
\* phase 1 to the end only with phase "1", a stop or an exception; a run in
\* which no stop was requested and no exception escaped ends `completed`.
C19_PhaseSelector ==
    /\ [](\A t \in Tasks :
            /\ (Active(t) /\ task[t].phase = "1") =>
                  /\ task[t].pc \notin Phase2Pcs
                  /\ hist.fetch.kind # "house"
            /\ (Active(t) /\ task[t].phase = "2") =>
                  /\ task[t].pc \notin Phase1Pcs
                  /\ hist.fetch.kind \notin {"search", "listing"})
    /\ [][\A t \in Tasks :
            /\ (task[t].pc = "entered" /\ Steps(t)) =>
                  IF task[t].phase = "2"
                  THEN task'[t].pc \in {"p2_query", "done"}
                  ELSE task'[t].pc \in {"p1_fetch", "done"}
            /\ (task[t].pc \notin Phase2Pcs /\ task'[t].pc \in Phase2Pcs) =>
                  \/ task[t].pc = "entered" /\ task[t].phase = "2"
                  \/ task[t].pc \in Phase1Pcs /\ task[t].phase = "none"
            /\ (task[t].pc \in Phase1Pcs /\ task'[t].pc \notin Phase1Pcs) =>
                  \/ task'[t].pc = "p2_query" /\ task[t].phase = "none"
                  \/ task'[t].pc = "closing" /\ task[t].phase = "1"
                  \/ task'[t].pc = "exc"
                  \/ task'[t].pc = "done" /\ scan_state'.status = "stopped"
            /\ (Active(t) /\ task'[t].pc = "done"
                  /\ ~scan_state'.stop_requested /\ ~hist'.raised) =>
                  scan_state'.status = "completed"]_vars

\* C19 witness: after a first run that left a building without
\* characteristics, a run started with phase "2" has a building page fetch
\* in flight and has completed no fetch before it.
C19_Witness ==
    /\ \E t \in Tasks :
        /\ task[t].phase = "2"
        /\ task[t].pc = "p2_fetch"
        /\ task[t].idx = 0
    /\ \E u \in Tasks : task[u].pc = "done"
    /\ hist.fetch = NoFetch
    /\ ~scan_state.stop_requested

\* C20: under fair scheduling every run that passed the guard (status
\* `running`) reaches the end of run_full_scan with a terminal status,
\* whatever the fetches return.
C20_RunTerminates ==
    \A t \in Tasks :
        (Active(t) /\ scan_state.status = "running")
            ~> (task[t].pc = "done" /\ scan_state.status \in TerminalStatuses)

\* C20 witness: a run ended `completed` after fetches that failed (a queue
\* was abandoned at the threshold) and fetches that succeeded (a page with
\* items was counted).
C20_Witness ==
    /\ \E t \in Tasks : task[t].pc = "done"
    /\ \A t \in Tasks : ~Active(t)
    /\ scan_state.status = "completed"
    /\ hist.tripped # {}
    /\ scan_state.done_pages > 0
    /\ hist.fetch.res = "fail"

StopDistance(pc) ==
    CASE pc \in {"p1_fetch", "p2_fetch"} -> 3
      [] pc \in {"addr_fetch", "addr_query", "p2_query", "p2_sleep"} -> 2
      [] pc \in {"entered", "p1_sleep", "addr_sleep", "closing", "exc"} -> 1
      [] OTHER -> 0

\* C22: every step a run takes while stop_requested is true brings it
\* strictly closer to the end of run_full_scan: a fetch in flight is followed
\* by the processing of its page and the sleep (or, at the end of the last
\* category, the SELECT of the address resolution), a sleep or a query by
\* the stop check, and no such step begins a fetch; so the run leaves `running`
\* within three steps of the request without a further fetch.
C22_BoundedStop ==
    [][\A t \in Tasks : (Active(t) /\ Steps(t) /\ scan_state.stop_requested) =>
        /\ StopDistance(task'[t].pc) < StopDistance(task[t].pc)
        /\ task'[t].pc \notin FetchPcs
        /\ task[t].pc \in FetchPcs =>
             task'[t].pc \in {"p1_sleep", "addr_query", "addr_sleep", "p2_sleep",
                              "closing", "exc", "done"}
        /\ task'[t].pc = "done" => scan_state'.status \in {"stopped", "error"}]_vars

\* C22 witness: a stop was requested while a building page was being
\* fetched or during the delay after it; the page was processed (the building
\* is enriched) and the run is in the delay, rows still in its queue.
C22_Witness ==
    \E t \in Tasks :
        /\ task[t].pc = "p2_sleep"
        /\ scan_state.stop_requested
        /\ scan_state.status = "running"
        /\ task[t].idx + 1 < Len(task[t].rows)
        /\ hist.fetch.kind = "house" /\ hist.fetch.res = "data"
        /\ scan_state.new_houses = 1

\* C23 (as the specification states it): every step that ends an attempt on
\* an item of the address resolution or of the enrichment without an
\* exception, whether the fetch succeeded or failed, goes to the pacing
\* delay of its loop.
C23_DelayAfterEveryAttempt ==
    [][\A t \in Tasks :
        /\ (task[t].pc = "addr_fetch" /\ Steps(t) /\ task'[t].pc # "exc") =>
              task'[t].pc = "addr_sleep"
        /\ (task[t].pc = "p2_fetch" /\ Steps(t) /\ task'[t].pc # "exc") =>
              task'[t].pc = "p2_sleep"]_vars

\* C24: at most one fetch is in flight; a run paginates the categories in
\* order, passing to the next one (and after the last one to the address
\* resolution) only in the step in which the category ends by an empty page
\* or by the breaker; a listing page is fetched only inside the address
\* resolution; phase 2 starts only from the start of a phase "2" run or from
\* the end of the address resolution (no pool, no rows, rows exhausted or
\* breaker), and a building page is fetched only inside phase 2.
C24_PassesInOrder ==
    /\ [](Cardinality({t \in Tasks : task[t].pc \in FetchPcs}) <= 1)
    /\ [][\A t \in Tasks : Steps(t) =>
            LET ended == \/ hist'.fetch.res = "empty"
                         \/ NewlyTripped(SEARCH_CATEGORIES[task[t].cat])
            IN
            /\ (task'[t].pc = "p1_fetch" /\ task'[t].cat # task[t].cat) =>
                  \/ task[t].pc = "entered" /\ task'[t].cat = 1
                  \/ /\ task[t].pc = "p1_fetch"
                     /\ task'[t].cat = task[t].cat + 1
                     /\ ended
            /\ (task'[t].pc = "addr_query") =>
                  /\ task[t].pc = "p1_fetch"
                  /\ task[t].cat = Len(SEARCH_CATEGORIES)
                  /\ ended
            /\ (task'[t].pc = "addr_fetch") =>
                  task[t].pc \in {"addr_query", "addr_sleep"}
            /\ (task'[t].pc = "p2_query") =>
                  \/ task[t].pc = "entered" /\ task[t].phase = "2"
                  \/ task[t].pc = "addr_query"
                  \/ task[t].pc = "addr_sleep" /\ task[t].idx + 1 >= Len(task[t].rows)
                  \/ task[t].pc = "addr_fetch" /\ NewlyTripped("addr")
            /\ (task'[t].pc = "p2_fetch") =>
                  task[t].pc \in {"p2_query", "p2_sleep"}]_vars

\* C24 witness: a listing page is being fetched in a run whose category sale
\* ended by the breaker and whose category rent ended by an empty page.
C24_Witness ==
    \E t \in Tasks :
        /\ task[t].pc = "addr_fetch"
        /\ task[t].idx = 0
        /\ "sale" \in TrippedQueues(hist)
        /\ hist.fetch = [kind |-> "search", cat |-> Len(SEARCH_CATEGORIES),
                         key |-> 1, res |-> "empty"]

\* the items of a collection that have an identifier int() accepts
Parsable(raw_items) == SelectSeq(raw_items, LAMBDA r : r.id # NULL /\ r.id # BadId)

\* C25: the list parse_search_page returns for a decoded page holds, in
\* their order in the page, exactly the items of the collection that have a
\* readable identifier, each as it is parsed when it stands alone on a page;
\* the collection is loader.searchResult.items unless that is empty, and
\* only then loader.items.
C25_ItemsParsedIndependently ==
    extr.fn = "parse_search_page" =>
        LET html == extr.html
            collection == IF html.searchResult # <<>> THEN html.searchResult
                          ELSE html.items
            kept == Parsable(collection)
        IN IF ~html.hydration THEN extr.result = <<>>
           ELSE /\ Len(extr.result) = Len(kept)
                /\ \A n \in 1..Len(kept) :
                     /\ extr.result[n].item_id = kept[n].id
                     /\ <<extr.result[n]>> =
                          parse_search_page([hydration |-> TRUE,
                                             searchResult |-> <<kept[n]>>,
                                             items |-> <<>>])

\* C25 witness: the primary collection held an item that raises between two
\* items that parse, the secondary one held another item; the result is the
\* two parsed items in their order.
C25_Witness ==
    /\ extr.fn = "parse_search_page"
    /\ extr.html.hydration
    /\ Len(extr.html.searchResult) = 3
    /\ extr.html.searchResult[1].id = 2
    /\ extr.html.searchResult[2].id = BadId
    /\ extr.html.searchResult[3].id = 1
    /\ Len(extr.html.items) = 2
    /\ extr.html.items[1].id = NULL
    /\ Len(extr.result) = 2
    /\ extr.result[1].item_id = 2 /\ extr.result[2].item_id = 1

\* C26 (as the specification states it): when a recognized container
\* yielded a column, the result is what the containers yielded; when none
\* did, a matching {title, value} dict with a value three keys below the
\* loader gives its column, and one more than five keys below the loader
\* gives nothing.
C26_DeepSearchBounded ==
    extr.fn = "parse_house_page" =>
        LET matching == extr.title \in HOUSE_FIELD_MAP /\ extr.value
        IN /\ extr.page.containers # {} => extr.result = extr.page.containers
           /\ (extr.page.containers = {} /\ matching /\ extr.keys = 3) =>
                 extr.result = {extr.title}
           /\ (extr.page.containers = {} /\ extr.keys > DEEP_SEARCH_LIMIT) =>
                 extr.result = {}

\* C26 (amended): when a recognized container yielded a column, the result
\* is what the containers yielded; when none did, a {title, value} dict (or
\* the element of a list) gives its column exactly when its title is in
\* HOUSE_FIELD_MAP, its value is set and it lies at most six keys below the
\* loader, that is, inside a dict the search visits at depth 0 to 5.
C26_DeepSearchDepth ==
    extr.fn = "parse_house_page" =>
        LET matching == extr.title \in HOUSE_FIELD_MAP /\ extr.value
        IN IF extr.page.containers # {}
           THEN extr.result = extr.page.containers
           ELSE extr.result = IF matching /\ extr.keys <= DEEP_SEARCH_LIMIT + 1
                              THEN {extr.title} ELSE {}

\* C26 witness: no container yielded anything and a matching pair with a
\* value lies seven keys below the loader: nothing is extracted.
C26_Witness ==
    /\ extr.fn = "parse_house_page"
    /\ extr.page.containers = {}
    /\ extr.title \in HOUSE_FIELD_MAP /\ extr.value
    /\ extr.keys = DEEP_SEARCH_LIMIT + 2
    /\ extr.result = {}

\* C27: request_stop sets the flag only while status is `running`; the step
\* in which a run with the flag set ends without an exception writes
\* `stopped`; so status `completed` is never found together with the flag,
\* wherever in the run the request arrived.
C27_StopHonoured ==
    /\ [](scan_state.status = "completed" => ~scan_state.stop_requested)
    /\ [][/\ (scan_state'.stop_requested /\ ~scan_state.stop_requested) =>
               (scan_state.status = "running" /\ scan_state'.status = "running")
          /\ \A t \in Tasks :
               (Active(t) /\ task'[t].pc = "done" /\ scan_state'.stop_requested
                  /\ ~hist'.raised) => scan_state'.status = "stopped"
          /\ \A t \in Tasks :
               (task[t].pc = "closing" /\ Steps(t) /\ scan_state.stop_requested) =>
                  scan_state'.status = "stopped"]_vars

\* C27 witness: the stop arrived after the last stop check of phase 2 (every
\* building of the queue was attempted and enriched) and the run ended
\* `stopped`.
C27_Witness ==
    /\ scan_state.status = "stopped"
    /\ scan_state.stop_requested
    /\ scan_state.phase = "phase2_houses"
    /\ scan_state.total_houses = MaxAddr
    /\ scan_state.done_houses = scan_state.total_houses
    /\ scan_state.new_houses = scan_state.total_houses
    /\ ~hist.raised

\* C28: the step in which an invocation passes the guard sets status to
\* `running`, stop_requested to false and every counter to zero at once,
\* whatever the previous run left; stop_requested turns true only by a stop
\* request made while that run is running; and a run ends `stopped` only
\* with stop_requested true and a stop check of its own that saw it.
C28_NoStopLeak ==
    /\ [](scan_state.status = "stopped" => scan_state.stop_requested)
    /\ [][/\ \A t \in Tasks :
                (task[t].pc = "scheduled" /\ task'[t].pc = "entered") =>
                    /\ scan_state'.status = "running"
                    /\ ~scan_state'.stop_requested
                    /\ scan_state'.total_pages = 0 /\ scan_state'.done_pages = 0
                    /\ scan_state'.total_houses = 0 /\ scan_state'.done_houses = 0
                    /\ scan_state'.new_houses = 0 /\ scan_state'.listings_found = 0
                    /\ scan_state'.errors = 0
                    /\ ~hist'.stop_seen
          /\ (scan_state'.stop_requested /\ ~scan_state.stop_requested) =>
                /\ task' = task
                /\ scan_state.status = "running"
                /\ \E t \in Tasks : Active(t)
          /\ \A t \in Tasks :
                (Active(t) /\ task'[t].pc = "done" /\ scan_state'.status = "stopped") =>
                    scan_state.stop_requested /\ hist'.stop_seen]_vars

\* C28 witness: the run started after the stopped run, in which
\* stop_requested and the counters were left set, ended `completed`.
C28_Witness ==
    /\ task[1].pc = "done"
    /\ task[2].pc = "done"
    /\ scan_state.status = "completed"
    /\ scan_state.started_at = 2
    /\ ~scan_state.stop_requested
    /\ ~hist.stop_seen

\* C29 (as the specification states it): a start request is answered
\* "Scan started" exactly when it schedules an invocation of run_full_scan,
\* and every scheduled invocation passes the guard and sets status to
\* `running`: none returns at the guard.
C29_StartAnswerMatches ==
    [][/\ \A phase \in PhaseArgs : start_scan(phase) =>
            (task' = task <=> get_scan_status(scan_state).status = "running")
       /\ \A t \in Tasks :
            (task[t].pc = "scheduled" /\ Steps(t)) =>
                /\ task'[t].pc = "entered"
                /\ scan_state'.status = "running"
                /\ scan_state'.started_at = clock']_vars

\* C30 (as the specification states it): a run that has received the result
\* of a fetch issues no further fetch before a pacing delay: the step that
\* ends a fetch goes to the delay of its loop, unless the run issues no
\* fetch any more (it returns, leaves the client context or raises).
C30_DelayBetweenFetches ==
    [][\A t \in Tasks :
        (task[t].pc \in FetchPcs /\ Steps(t)) =>
            task'[t].pc \in {"p1_sleep", "addr_sleep", "p2_sleep",
                             "done", "closing", "exc"}]_vars

\* C31 (as the specification states it): done_houses never exceeds
\* total_houses; the step that ends the attempt on a building adds one to
\* exactly one of new_houses and errors, to new_houses only when upsert_house
\* stored the characteristics of a page with data; and after every step of
\* the enrichment pass done_houses is at most the number of buildings whose
\* page the pass has fetched or tried to fetch.
C31_ProgressAccounting ==
    /\ [](scan_state.done_houses <= scan_state.total_houses)
    /\ [][\A t \in Tasks :
            /\ (task[t].pc = "p2_fetch" /\ Steps(t)) =>
                 LET new == scan_state'.new_houses - scan_state.new_houses
                     err == scan_state'.errors - scan_state.errors
                     address_id == task[t].rows[task[t].idx + 1]
                 IN /\ <<new, err>> \in {<<1, 0>>, <<0, 1>>}
                    /\ new = 1 =>
                         \E h \in HousePages :
                            /\ parse_house_page(h).kind = "data"
                            /\ houses' = upsert_house(houses, address_id,
                                                      Enriched(parse_house_page(h)))
                    /\ scan_state'.done_houses <= task[t].idx + 1
            /\ (task[t].pc = "p2_sleep" /\ Steps(t)) =>
                 scan_state'.done_houses <= task[t].idx + 1
            /\ (task[t].pc = "p2_query" /\ Steps(t)) =>
                 scan_state'.done_houses = 0]_vars

====
